---- MODULE Spec2Model ----
(***************************************************************************)
(* Generation job orchestrator and catalog of pixery (src-tauri/src):      *)
(* workflow.rs (prepare / complete / perform), commands.rs (the GUI        *)
(* generate_image command around the catalog mutex), db.rs (the SQLite     *)
(* catalog) and archive.rs (the content store).                            *)
(***************************************************************************)
EXTENDS Integers, Sequences, FiniteSets, TLC

(* ---------------------------------------------------------------- bounds *)
\* Number of clock ticks in the workflow specification (Spec).
MaxTicks == 1
\* Number of clock ticks in the sweep specification (SweepSpec).
MaxSweepTicks == 3
\* Last tick at which a request may still be invoked.
MaxStartTick == 1
\* Number of generation rows, job rows and collection rows the catalog
\* specifications (CatalogSpec, TrashSpec) insert.
MaxGenerations == 2
MaxJobs == 1
MaxCollections == 1
\* Number of clock ticks in the trash specification (TrashSpec).
MaxTrashTicks == 2
\* Number of job rows and of imported days in the cost specification
\* (CostSpec).
MaxCostJobs == 2
MaxImportDays == 31
\* Number of job rows and of clock ticks in the archive specification
\* (ArchiveSpec).
MaxArchiveJobs == 3
MaxArchiveTicks == 1

(* ------------------------------------------------------------- constants *)
MinutesPerDay == 24 * 60
\* chrono::Duration::minutes(30) of cleanup_stalled_jobs
ThresholdMinutes == 30
\* the separator between date and time: ' ' in SQLite's CURRENT_TIMESTAMP,
\* 'T' in the "%Y-%m-%dT%H:%M:%S" format strings (character codes)
SepSql == 32
SepIso == 84
\* the clock starts at 23:40 UTC of day 1 and advances in steps of 40 minutes
InitNow == 2 * MinutesPerDay - 20
TickMinutes == ThresholdMinutes + 10
MinutesPerHour == 60
\* offsets of the local time zone from UTC, in minutes (one hour west)
TzOffsets == {0 - 60}

NullText == "NULL"
NullTime == <<>>
NullId == 0
\* a NULL cost_estimate_usd; costs are amounts in thousandths of a dollar
NullCost == 0 - 1
\* LIMIT 30 of the per-day query of get_cost_summary
DayLimit == 30
\* no --date override of the import command
NoOverride == 0 - 1
TimeoutError == "Job timed out after 30 minutes"
CopyError == "Failed to copy image"
ProviderErrors == {"provider error A", "provider error B"}

Requests == {"r1", "r2"}
Commands == {"c1"}
NoHolder == "none"

\* reference files a request can name: three paths with byte-identical
\* content, one of them with another extension, and one path that cannot be
\* read
SourcePaths == {"a.png", "b.png", "c.jpg", "missing.png"}
FileContent(path) == IF path = "missing.png" THEN "unreadable" ELSE "bytesX"
\* the (tags, reference_paths) a request can carry: the two requests name
\* the reference content through different paths
OwnPath(r) == IF r = "r1" THEN "a.png" ELSE "b.png"
ParamSets(r) ==
  {[model |-> "gemini-flash", tags |-> <<>>, reference_paths |-> <<>>],
   [model |-> "gemini-flash", tags |-> <<"fox">>,
    reference_paths |-> <<OwnPath(r)>>],
   [model |-> "gemini-flash", tags |-> <<"fox">>,
    reference_paths |-> <<"missing.png">>]}
\* what the catalog specification draws its inputs from
TagLists == {<<>>, <<"fox">>, <<"owl">>, <<"fox", "owl">>, <<"fox", "fox">>}
AddedTagLists == {<<"fox">>, <<"owl">>}
CollectionNames == {"zoo"}
GenerationIdArgs == 1..(MaxGenerations + 1)
IdLists == {<<>>, <<1>>, <<1, 1>>, <<1, 2>>, <<2, 3>>}
CliParams ==
  {[model |-> "gemini-flash", tags |-> <<"fox">>,
    reference_paths |-> <<"a.png">>]}
ImportParams ==
  {[model |-> "gemini-flash", tags |-> <<>>, reference_paths |-> <<>>],
   [model |-> "gemini-flash", tags |-> <<"owl">>,
    reference_paths |-> <<"c.jpg">>]}
\* requests are named in the order in which they are invoked
Earlier(r) == IF r = "r2" THEN {"r1"} ELSE {}

VARIABLES
  now,               \* wall clock, minutes since day 0 (UTC)
  tz,                \* offset of chrono::Local from UTC
  lock,              \* holder of AppState.db (Mutex<Database>)
  generations,       \* table generations: set of rows
  tags,              \* table tags
  generation_tags,   \* table generation_tags: set of <<generation_id, tag_id>>
  refs,              \* table refs
  generation_refs,   \* table generation_refs: set of <<generation_id, ref_id>>
  generation_jobs,   \* table generation_jobs: function id -> row
  collections,       \* table collections
  generation_collections, \* set of <<generation_id, collection_id>>
  seq,               \* sqlite_sequence: last AUTOINCREMENT id per table
  ref_files,         \* files under references/
  image_files,       \* primary asset files under generations/<date>/
  pc,                \* position of each generate_image request
  params,            \* GenerateParams of each request
  job_id,            \* local job_id of each request (NullId before prepare)
  outcome,           \* what providers::generate returned to the request
  gen_id,            \* generation row the request inserted (NullId if none)
  ret,               \* value the request returned to its caller
  provider_calls,    \* number of times providers::generate ran per request
  cmd_pc,            \* position of each other catalog command
  call               \* the last library call of the catalog specification

catalogVars == <<generations, tags, generation_tags, refs, generation_refs,
                 generation_jobs, collections, generation_collections, seq>>
fileVars == <<ref_files, image_files>>
reqVars == <<pc, params, job_id, outcome, gen_id, ret, provider_calls>>
vars == <<now, tz, lock, generations, tags, generation_tags, refs,
          generation_refs, generation_jobs, collections, generation_collections,
          seq, ref_files, image_files, pc, params, job_id, outcome, gen_id, ret,
          provider_calls, cmd_pc, call>>

(* ------------------------------------------------------------ timestamps *)
\* A timestamp string is modelled by its three fixed-width fields
\* <<date, separator, time of day>>; strings of equal length compare
\* field by field, which is what SQLite's text comparison does.
FormatSql(t) == <<t \div MinutesPerDay, SepSql, t % MinutesPerDay>>
FormatIso(t) == <<t \div MinutesPerDay, SepIso, t % MinutesPerDay>>
CurrentTimestamp == FormatSql(now)
LocalNow == now + tz
Ticks == (now - InitNow) \div TickMinutes
StrLess(a, b) ==
  \/ a[1] < b[1]
  \/ a[1] = b[1] /\ a[2] < b[2]
  \/ a[1] = b[1] /\ a[2] = b[2] /\ a[3] < b[3]

(* --------------------------------------------------------------- catalog *)
Catalog ==
  [generations |-> generations, tags |-> tags,
   generation_tags |-> generation_tags, refs |-> refs,
   generation_refs |-> generation_refs, generation_jobs |-> generation_jobs,
   collections |-> collections,
   generation_collections |-> generation_collections, seq |-> seq]

SetCatalog(c) ==
  /\ generations' = c.generations
  /\ tags' = c.tags
  /\ generation_tags' = c.generation_tags
  /\ refs' = c.refs
  /\ generation_refs' = c.generation_refs
  /\ generation_jobs' = c.generation_jobs
  /\ collections' = c.collections
  /\ generation_collections' = c.generation_collections
  /\ seq' = c.seq

GenIds(c) == {g.id : g \in c.generations}
JobIds(c) == DOMAIN c.generation_jobs

NoResult ==
  [kind |-> "none", error |-> NullText, data |-> "none", cost_usd |-> NullCost]
ImageData == {"png", "garbage"}
\* a GenerationResult (image_data, cost_usd) or the provider's error; the
\* results of the workflow specification report no cost
ProviderResults ==
  [kind : {"ok"}, error : {NullText}, data : ImageData, cost_usd : {NullCost}]
    \cup [kind : {"err"}, error : ProviderErrors, data : {"none"},
          cost_usd : {NullCost}]
Returned(kind, error) ==
  [kind |-> kind, error |-> error, data |-> "none", cost_usd |-> NullCost]
\* no library call has returned yet
NoCall == [op |-> "none"]

(* ------------------------------------------------- db.rs: job operations *)
\* INSERT INTO generation_jobs (...): status and created_at take the column
\* defaults 'pending' and CURRENT_TIMESTAMP; the id is AUTOINCREMENT.
create_job(c) ==
  LET id == c.seq.generation_jobs + 1
      row == [status |-> "pending", created_at |-> CurrentTimestamp,
              started_at |-> NullTime, completed_at |-> NullTime,
              generation_id |-> NullId, error |-> NullText]
  IN [c EXCEPT !.generation_jobs = (id :> row) @@ @,
               !.seq.generation_jobs = id]

\* UPDATE ... WHERE id = ?: a statement that names no row changes nothing.
update_job_started(c, id) ==
  IF id \notin JobIds(c) THEN c
  ELSE [c EXCEPT !.generation_jobs[id].status = "running",
                 !.generation_jobs[id].started_at = FormatIso(LocalNow)]

update_job_completed(c, id, generation_id) ==
  IF id \notin JobIds(c) THEN c
  ELSE [c EXCEPT !.generation_jobs[id].status = "completed",
                 !.generation_jobs[id].completed_at = FormatIso(LocalNow),
                 !.generation_jobs[id].generation_id = generation_id]

\* update_job_failed as it would be if it wrote a fixed text instead of the
\* error it is given
update_job_failed_generic(c, id, error) ==
  IF id \notin JobIds(c) THEN c
  ELSE [c EXCEPT !.generation_jobs[id].status = "failed",
                 !.generation_jobs[id].completed_at = FormatIso(LocalNow),
                 !.generation_jobs[id].error = "generation failed"]

update_job_failed(c, id, error) ==
  IF id \notin JobIds(c) THEN c
  ELSE [c EXCEPT !.generation_jobs[id].status = "failed",
                 !.generation_jobs[id].completed_at = FormatIso(LocalNow),
                 !.generation_jobs[id].error = error]

\* the sweep's selection as it would be if it looked at running jobs only
StalledRunningJobs(c) ==
  LET cutoff_str == FormatIso(LocalNow - ThresholdMinutes)
  IN {id \in JobIds(c) :
        /\ c.generation_jobs[id].status = "running"
        /\ StrLess(c.generation_jobs[id].created_at, cutoff_str)}

\* The rows the sweep's WHERE clause selects: status IN ('pending','running')
\* AND created_at < cutoff, a comparison of the two strings.
StalledJobs(c) ==
  LET cutoff_str == FormatIso(LocalNow - ThresholdMinutes)
  IN {id \in JobIds(c) :
        /\ c.generation_jobs[id].status \in {"pending", "running"}
        /\ StrLess(c.generation_jobs[id].created_at, cutoff_str)}

\* the sweep as it would be if it set the status and left the error column
cleanup_stalled_jobs_silent(c) ==
  [c EXCEPT !.generation_jobs =
     [id \in JobIds(c) |->
        IF id \in StalledJobs(c)
        THEN [c.generation_jobs[id] EXCEPT
                !.status = "failed", !.completed_at = FormatIso(LocalNow)]
        ELSE c.generation_jobs[id]]]

cleanup_stalled_jobs(c) ==
  [c EXCEPT !.generation_jobs =
     [id \in JobIds(c) |->
        IF id \in StalledJobs(c)
        THEN [c.generation_jobs[id] EXCEPT
                !.status = "failed", !.error = TimeoutError,
                !.completed_at = FormatIso(LocalNow)]
        ELSE c.generation_jobs[id]]]

\* cleanup_old_jobs as it would be if it deleted every job that started
\* before the cutoff, whatever its status
cleanup_old_jobs_by_start(c, hours) ==
  LET cutoff == FormatIso(LocalNow - hours * MinutesPerHour)
      gone == {id \in JobIds(c) :
                 /\ c.generation_jobs[id].started_at # NullTime
                 /\ StrLess(c.generation_jobs[id].started_at, cutoff)}
  IN [c |-> [c EXCEPT !.generation_jobs =
                        [id \in JobIds(c) \ gone |-> c.generation_jobs[id]]],
      result |-> Cardinality(gone)]

\* cleanup_old_jobs: the cutoff is Local::now() - hours in the format of
\* completed_at; DELETE FROM generation_jobs WHERE status IN ('completed',
\* 'failed') AND completed_at < cutoff (a NULL completed_at is not less than
\* anything); the result is the number of rows deleted
cleanup_old_jobs(c, hours) ==
  LET cutoff == FormatIso(LocalNow - hours * MinutesPerHour)
      gone == {id \in JobIds(c) :
                 /\ c.generation_jobs[id].status \in {"completed", "failed"}
                 /\ c.generation_jobs[id].completed_at # NullTime
                 /\ StrLess(c.generation_jobs[id].completed_at, cutoff)}
  IN [c |-> [c EXCEPT !.generation_jobs =
                        [id \in JobIds(c) \ gone |-> c.generation_jobs[id]]],
      result |-> Cardinality(gone)]

(* ------------------------------------- db.rs: generations, tags and refs *)
insert_generation(c, model, timestamp, date, image_path, thumb_path, cost) ==
  LET id == c.seq.generations + 1
      row == [id |-> id, model |-> model, timestamp |-> timestamp,
              date |-> date, image_path |-> image_path,
              thumb_path |-> thumb_path, cost_estimate_usd |-> cost,
              parent_id |-> NullId, starred |-> FALSE,
              trashed_at |-> NullTime]
  IN [c EXCEPT !.generations = @ \cup {row}, !.seq.generations = id]

\* toggle_starred as it would be if its UPDATE set the flag instead of
\* negating it
toggle_starred_set(c, id) ==
  IF id \notin GenIds(c)
  THEN [ok |-> FALSE, c |-> c, result |-> FALSE]
  ELSE [ok |-> TRUE,
        c |-> [c EXCEPT !.generations =
                 {IF g.id = id THEN [g EXCEPT !.starred = TRUE] ELSE g :
                    g \in @}],
        result |-> TRUE]

\* UPDATE generations SET starred = NOT starred WHERE id = ?, then SELECT
\* starred ... WHERE id = ? through query_row, which is an error when no row
\* has the id (the UPDATE has then changed nothing)
toggle_starred(c, id) ==
  IF id \notin GenIds(c)
  THEN [ok |-> FALSE, c |-> c, result |-> FALSE]
  ELSE LET c1 == [c EXCEPT !.generations =
                    {IF g.id = id THEN [g EXCEPT !.starred = ~g.starred]
                     ELSE g : g \in @}]
       IN [ok |-> TRUE, c |-> c1,
           result |-> (CHOOSE g \in c1.generations : g.id = id).starred]

TagIdOf(c, name) == (CHOOSE t \in c.tags : t.name = name).id

\* get_or_create_tag as it would be without the lookup (and without the
\* UNIQUE constraint on tags.name)
create_tag(c, name) ==
  [c EXCEPT !.tags = @ \cup {[id |-> c.seq.tags + 1, name |-> name]},
            !.seq.tags = c.seq.tags + 1]

\* returns the catalog after the call; the id is TagIdOf of the result
get_or_create_tag(c, name) ==
  IF \E t \in c.tags : t.name = name THEN c
  ELSE [c EXCEPT !.tags = @ \cup {[id |-> c.seq.tags + 1, name |-> name]},
                 !.seq.tags = c.seq.tags + 1]

\* the catalog after add_tags: per tag, get_or_create_tag and then INSERT OR
\* IGNORE of the link; the insert fails on the foreign key when the generation
\* does not exist (OR IGNORE does not cover foreign keys) and `?` returns
RECURSIVE add_tags(_, _, _)
add_tags(c, generation_id, tagList) ==
  IF tagList = <<>> THEN c
  ELSE LET c1 == get_or_create_tag(c, Head(tagList))
           tag_id == TagIdOf(c1, Head(tagList))
           c2 == [c1 EXCEPT !.generation_tags = @ \cup {<<generation_id, tag_id>>}]
       IN IF generation_id \notin GenIds(c) THEN c1
          ELSE add_tags(c2, generation_id, Tail(tagList))

\* whether add_tags would return Ok if the link were inserted with a plain
\* INSERT (the primary key rejects a link that exists)
add_tags_ok_no_ignore(c, generation_id, tagList) ==
  \/ tagList = <<>>
  \/ /\ generation_id \in GenIds(c)
     /\ \A i \in DOMAIN tagList :
          ~\E t \in c.tags :
             t.name = tagList[i] /\ <<generation_id, t.id>> \in c.generation_tags

\* whether add_tags returns Ok
add_tags_ok(c, generation_id, tagList) ==
  tagList = <<>> \/ generation_id \in GenIds(c)

\* remove_tag as it would be if it also deleted a tag that is left with no
\* link
remove_tag_and_orphan(c, generation_id, tag) ==
  LET ids == {t.id : t \in {u \in c.tags : u.name = tag}}
      links == {l \in c.generation_tags :
                  ~(l[1] = generation_id /\ l[2] \in ids)}
  IN [c EXCEPT !.generation_tags = links,
               !.tags = {t \in @ : t.name # tag \/ \E l \in links : l[2] = t.id}]

\* DELETE FROM generation_tags WHERE generation_id = ? AND tag_id = (SELECT
\* id FROM tags WHERE name = ?): a statement that matches no row changes
\* nothing and is no error
remove_tag(c, generation_id, tag) ==
  LET ids == {t.id : t \in {u \in c.tags : u.name = tag}}
  IN [c EXCEPT !.generation_tags =
        {l \in @ : ~(l[1] = generation_id /\ l[2] \in ids)}]

\* list_tags: every tag row with the number of its links (LEFT JOIN, so a
\* tag with no link has count 0); a set, the order of the list (count
\* descending, then name) is not modelled
list_tags(c) ==
  {[name |-> t.name,
    count |-> Cardinality({l \in c.generation_tags : l[2] = t.id})] :
     t \in c.tags}

RefIdOf(c, hash) == (CHOOSE x \in c.refs : x.hash = hash).id

\* get_or_create_reference as it would be without the lookup by hash (and
\* without the UNIQUE constraint on refs.hash)
create_reference(c, hash, path) ==
  [c EXCEPT !.refs = @ \cup {[id |-> c.seq.refs + 1, hash |-> hash,
                              path |-> path]},
            !.seq.refs = c.seq.refs + 1]

get_or_create_reference(c, hash, path) ==
  IF \E x \in c.refs : x.hash = hash THEN c
  ELSE [c EXCEPT !.refs = @ \cup {[id |-> c.seq.refs + 1, hash |-> hash,
                                   path |-> path]},
                 !.seq.refs = c.seq.refs + 1]

link_reference(c, generation_id, ref_id) ==
  [c EXCEPT !.generation_refs = @ \cup {<<generation_id, ref_id>>}]

\* SELECT r.* FROM refs r JOIN generation_refs gr ON r.id = gr.ref_id WHERE
\* gr.generation_id = ?
get_references_for_generation(c, generation_id) ==
  {r \in c.refs : <<generation_id, r.id>> \in c.generation_refs}

\* PRAGMA foreign_keys = ON: generation_jobs.generation_id and
\* generations.parent_id reference generations(id) with no ON DELETE action,
\* so the DELETE fails while such a row exists; the join tables cascade.
DeleteBlocked(c, id) ==
  \/ \E j \in JobIds(c) : c.generation_jobs[j].generation_id = id
  \/ \E g \in c.generations : g.parent_id = id

\* the delete as it would be with foreign keys not enforced
permanently_delete_unchecked(c, id) ==
  [c EXCEPT !.generations = {g \in @ : g.id # id},
            !.generation_tags = {l \in @ : l[1] # id},
            !.generation_refs = {l \in @ : l[1] # id},
            !.generation_collections = {l \in @ : l[1] # id}]

\* the delete as it would be if it also deleted the reference rows the
\* generation was linked to
permanently_delete_with_refs(c, id) ==
  IF DeleteBlocked(c, id) THEN c
  ELSE LET gone == {l[2] : l \in {x \in c.generation_refs : x[1] = id}}
       IN [c EXCEPT !.generations = {g \in @ : g.id # id},
                    !.generation_tags = {l \in @ : l[1] # id},
                    !.generation_refs = {l \in @ : l[1] # id /\ l[2] \notin gone},
                    !.refs = {r \in @ : r.id \notin gone},
                    !.generation_collections = {l \in @ : l[1] # id}]

permanently_delete_generation(c, id) ==
  IF DeleteBlocked(c, id) THEN c
  ELSE [c EXCEPT !.generations = {g \in @ : g.id # id},
                 !.generation_tags = {l \in @ : l[1] # id},
                 !.generation_refs = {l \in @ : l[1] # id},
                 !.generation_collections = {l \in @ : l[1] # id}]

GenerationOf(c, id) == CHOOSE g \in c.generations : g.id = id

\* UPDATE generations SET trashed_at = now WHERE id = ? AND trashed_at IS
\* NULL; the rows the statement changes
Trashable(c, ids) ==
  {g \in c.generations : g.id \in ids /\ g.trashed_at = NullTime}

\* the UPDATE as it would be if it also took the rows out of their
\* collections
SetTrashed_unfiled(c, rows, value) ==
  [c EXCEPT !.generations =
     {IF g \in rows THEN [g EXCEPT !.trashed_at = value] ELSE g : g \in @},
            !.generation_collections =
     {l \in @ : l[1] \notin {g.id : g \in rows}}]

SetTrashed(c, rows, value) ==
  [c EXCEPT !.generations =
     {IF g \in rows THEN [g EXCEPT !.trashed_at = value] ELSE g : g \in @}]

\* trash_generation as it would be without `AND trashed_at IS NULL`
trash_generation_overwrite(c, id) ==
  LET rows == {g \in c.generations : g.id = id}
  IN [c |-> SetTrashed(c, rows, FormatIso(LocalNow)), result |-> rows # {}]

trash_generation(c, id) ==
  LET rows == Trashable(c, {id})
  IN [c |-> SetTrashed(c, rows, FormatIso(LocalNow)), result |-> rows # {}]

\* the ids are bound to one IN (...) list; the result is the number of rows
\* the statement changed
trash_generations(c, ids) ==
  IF ids = <<>> THEN [c |-> c, result |-> 0]
  ELSE LET rows == Trashable(c, {ids[i] : i \in DOMAIN ids})
       IN [c |-> SetTrashed(c, rows, FormatIso(LocalNow)),
           result |-> Cardinality(rows)]

\* restore_generation as it would be if its UPDATE changed no row
restore_generation_noop(c, id) ==
  [c |-> c, result |-> FALSE]

restore_generation(c, id) ==
  LET rows == {g \in c.generations : g.id = id /\ g.trashed_at # NullTime}
  IN [c |-> SetTrashed(c, rows, NullTime), result |-> rows # {}]

(* ------------------------------------------- db.rs: list_generations *)
\* A ListFilter: show_trashed, tags and exclude_tags (an absent list and an
\* empty list add no condition, both are <<>>), collection_id (NullId when
\* absent), uncategorized, model (NullText when absent), starred_only, since
\* (a date, <<>> when absent), and the optional limit and offset (<<>> when
\* absent, <<n>> when present).
Names(list) == {list[i] : i \in DOMAIN list}

TagNamesOf(c, id) ==
  {t.name : t \in {u \in c.tags : <<id, u.id>> \in c.generation_tags}}

\* SELECT gt.generation_id ... WHERE t.name IN (list) GROUP BY
\* gt.generation_id HAVING COUNT(DISTINCT t.name) = tags.len()
RequiredTagIds(c, list) ==
  {id \in {l[1] : l \in c.generation_tags} :
     Cardinality(TagNamesOf(c, id) \cap Names(list)) = Len(list)}

\* the exclusion subquery as it would be if it selected the generations
\* that carry every excluded name
ExcludedByAllIds(c, list) ==
  {id \in {l[1] : l \in c.generation_tags} :
     Names(list) \subseteq TagNamesOf(c, id)}

\* SELECT gt.generation_id ... WHERE t.name IN (list)
ExcludedIds(c, list) ==
  {id \in {l[1] : l \in c.generation_tags} :
     TagNamesOf(c, id) \cap Names(list) # {}}

\* the WHERE clause as it would be if the uncategorized condition were
\* added only when no collection is given
Selected_collection_first(c, filter) ==
  {g \in c.generations :
     /\ IF filter.show_trashed THEN g.trashed_at # NullTime
        ELSE g.trashed_at = NullTime
     /\ filter.collection_id # NullId =>
          <<g.id, filter.collection_id>> \in c.generation_collections
     /\ (filter.collection_id = NullId /\ filter.uncategorized) =>
          g.id \notin {l[1] : l \in c.generation_collections}
     /\ filter.tags # <<>> => g.id \in RequiredTagIds(c, filter.tags)
     /\ filter.exclude_tags # <<>> =>
          g.id \notin ExcludedIds(c, filter.exclude_tags)
     /\ filter.model # NullText => g.model = filter.model
     /\ filter.starred_only => g.starred
     /\ filter.since # <<>> => g.date >= filter.since[1]}

\* the rows the WHERE clause selects
Selected(c, filter) ==
  {g \in c.generations :
     /\ IF filter.show_trashed THEN g.trashed_at # NullTime
        ELSE g.trashed_at = NullTime
     /\ filter.collection_id # NullId =>
          <<g.id, filter.collection_id>> \in c.generation_collections
     /\ filter.uncategorized =>
          g.id \notin {l[1] : l \in c.generation_collections}
     /\ filter.tags # <<>> => g.id \in RequiredTagIds(c, filter.tags)
     /\ filter.exclude_tags # <<>> =>
          g.id \notin ExcludedIds(c, filter.exclude_tags)
     /\ filter.model # NullText => g.model = filter.model
     /\ filter.starred_only => g.starred
     /\ filter.since # <<>> => g.date >= filter.since[1]}

\* ORDER BY g.timestamp DESC: every order of the rows in which no row comes
\* before a row with a greater timestamp (rows with equal timestamps come in
\* either order)
Ordered(rows) ==
  {s \in [1..Cardinality(rows) -> rows] :
     /\ \A i, j \in DOMAIN s : i # j => s[i] # s[j]
     /\ \A i, j \in DOMAIN s :
          i < j => ~StrLess(s[i].timestamp, s[j].timestamp)}

\* " LIMIT n" is appended when the limit is present and " OFFSET m" when
\* the offset is present, each on its own; SQLite's grammar has OFFSET only
\* after LIMIT, so the statement with an offset and no limit is not prepared
list_generations_ok(filter) == filter.offset = <<>> \/ filter.limit # <<>>

\* LIMIT n OFFSET m of a list in result order (a negative limit is no limit,
\* a negative offset is 0)
Page(s, filter) ==
  LET skipped == IF filter.offset = <<>> \/ filter.offset[1] < 0 THEN 0
                 ELSE filter.offset[1]
      last == IF filter.limit = <<>> \/ filter.limit[1] < 0 THEN Len(s)
              ELSE IF skipped + filter.limit[1] < Len(s)
              THEN skipped + filter.limit[1] ELSE Len(s)
  IN SubSeq(s, skipped + 1, last)

\* the results list_generations can return when it returns Ok: the ids in
\* result order
list_generations(c, filter) ==
  IF ~list_generations_ok(filter) THEN {}
  ELSE {Page([i \in DOMAIN s |-> s[i].id], filter) :
          s \in Ordered(Selected(c, filter))}

\* get_generation: the row, or none
get_generation(c, id) == {g \in c.generations : g.id = id}

(* ------------------------------------------- db.rs: get_cost_summary *)
\* SUM(cost_estimate_usd) skips the NULLs; COALESCE(..., 0) makes the sum of
\* no value 0
RECURSIVE SumCost(_)
SumCost(rows) ==
  IF rows = {} THEN 0
  ELSE LET g == CHOOSE x \in rows : TRUE
       IN (IF g.cost_estimate_usd = NullCost THEN 0 ELSE g.cost_estimate_usd)
            + SumCost(rows \ {g})

\* WHERE date >= ?1 (no condition when `since` is absent, <<>>)
SinceRows(c, since) ==
  {g \in c.generations : since = <<>> \/ g.date >= since[1]}

\* get_cost_summary as it would be if it counted the rows that have a cost
get_cost_summary_costed(c, since) ==
  LET rows == SinceRows(c, since)
      days == {g.date : g \in rows}
      shown == {d \in days : Cardinality({e \in days : e > d}) < DayLimit}
  IN [total_usd |-> SumCost(rows),
      count |-> Cardinality({g \in rows : g.cost_estimate_usd # NullCost}),
      by_model |-> {<<m, SumCost({g \in rows : g.model = m})>> :
                      m \in {g.model : g \in rows}},
      by_day |-> {<<d, SumCost({g \in rows : g.date = d})>> : d \in shown}]

\* get_cost_summary: the total, COUNT(*), the sums per model (a set: rows
\* with equal sums come in either order) and the sums per date of the first
\* DayLimit dates in descending order (a set: the dates are distinct, so
\* the order of the list is that of the dates)
get_cost_summary(c, since) ==
  LET rows == SinceRows(c, since)
      days == {g.date : g \in rows}
      shown == {d \in days : Cardinality({e \in days : e > d}) < DayLimit}
  IN [total_usd |-> SumCost(rows),
      count |-> Cardinality(rows),
      by_model |-> {<<m, SumCost({g \in rows : g.model = m})>> :
                      m \in {g.model : g \in rows}},
      by_day |-> {<<d, SumCost({g \in rows : g.date = d})>> : d \in shown}]

(* ------------------------------------------------- db.rs: collections *)
CollectionIdOf(c, name) == (CHOOSE x \in c.collections : x.name = name).id

\* INSERT INTO collections: the name is UNIQUE
create_collection(c, name) ==
  IF \E x \in c.collections : x.name = name
  THEN [ok |-> FALSE, c |-> c, error |-> "Failed to create collection"]
  ELSE [ok |-> TRUE,
        c |-> [c EXCEPT !.collections =
                          @ \cup {[id |-> c.seq.collections + 1, name |-> name]},
                        !.seq.collections = c.seq.collections + 1],
        error |-> NullText]

\* SELECT c.id, c.name, COUNT(gc.generation_id) FROM collections c LEFT JOIN
\* generation_collections gc ON c.id = gc.collection_id LEFT JOIN generations
\* g ON gc.generation_id = g.id AND g.trashed_at IS NULL GROUP BY c.id: the
\* second LEFT JOIN keeps every membership row (with a NULL g when the
\* generation is trashed), and the count is over gc.generation_id
list_collections(c) ==
  {[id |-> x.id, name |-> x.name,
    count |-> Cardinality({l \in c.generation_collections : l[2] = x.id})] :
     x \in c.collections}

\* the lookup by name, then INSERT OR IGNORE of the membership row, which
\* fails on the foreign key when the generation does not exist
add_to_collection(c, generation_id, collection_name) ==
  IF ~\E x \in c.collections : x.name = collection_name
  THEN [ok |-> FALSE, c |-> c, error |-> "Collection not found"]
  ELSE IF generation_id \notin GenIds(c)
  THEN [ok |-> FALSE, c |-> c, error |-> "FOREIGN KEY constraint failed"]
  ELSE [ok |-> TRUE,
        c |-> [c EXCEPT !.generation_collections =
                 @ \cup {<<generation_id, CollectionIdOf(c, collection_name)>>}],
        error |-> NullText]

\* DELETE FROM generation_collections WHERE generation_id = ? AND
\* collection_id = (SELECT id FROM collections WHERE name = ?)
remove_from_collection(c, generation_id, collection_name) ==
  LET ids == {x.id : x \in {y \in c.collections : y.name = collection_name}}
  IN [c EXCEPT !.generation_collections =
        {l \in @ : ~(l[1] = generation_id /\ l[2] \in ids)}]

\* delete_collection as it would be if it deleted the member generations
\* with the collection
delete_collection_with_members(c, name) ==
  LET gone == {x.id : x \in {y \in c.collections : y.name = name}}
      members == {l[1] : l \in {m \in c.generation_collections : m[2] \in gone}}
  IN [c |-> [c EXCEPT !.collections = {x \in @ : x.name # name},
                      !.generation_collections = {l \in @ : l[2] \notin gone},
                      !.generations = {g \in @ : g.id \notin members},
                      !.generation_tags = {l \in @ : l[1] \notin members},
                      !.generation_refs = {l \in @ : l[1] \notin members}],
      result |-> gone # {}]

\* delete_collection as it would be if the membership rows did not cascade
delete_collection_no_cascade(c, name) ==
  [c |-> [c EXCEPT !.collections = {x \in @ : x.name # name}],
   result |-> \E x \in c.collections : x.name = name]

\* DELETE FROM collections WHERE name = ?; generation_collections cascades
delete_collection(c, name) ==
  LET gone == {x.id : x \in {y \in c.collections : y.name = name}}
  IN [c |-> [c EXCEPT !.collections = {x \in @ : x.name # name},
                      !.generation_collections = {l \in @ : l[2] \notin gone}],
      result |-> gone # {}]

(* ------------------------------------------------------------ archive.rs *)
\* hash_bytes: SHA-256 of the content, an injective digest of the bytes
hash_bytes(data) == <<"sha256", data>>

\* the extension of the source path ("png" when it has none)
Extension(path) == IF path = "c.jpg" THEN "jpg" ELSE "png"

\* store_reference: read, hash, copy to references/<hash>.<ext> unless the
\* destination exists
store_reference(files, source_path) ==
  IF FileContent(source_path) = "unreadable"
  THEN [ok |-> FALSE, ref_files |-> files, hash |-> <<>>, path |-> <<>>,
        error |-> "Failed to read reference image"]
  ELSE LET hash == hash_bytes(FileContent(source_path))
           dest_path == <<hash, Extension(source_path)>>
       IN [ok |-> TRUE,
           ref_files |-> IF dest_path \in files THEN files
                         ELSE files \cup {dest_path},
           hash |-> hash, path |-> dest_path, error |-> NullText]

\* generate_filename and the collision loop of save_image: <slug>-<HHMMSS>,
\* then <slug>-<HHMMSS>-<counter> with the first free counter from 1
\* A path under generations/<date>/ is <stem>.<ext> with the stem
\* <slug>-<HHMMSS> (counter 0) or <slug>-<HHMMSS>-<counter>; every save uses
\* the same slug.  `thumb` marks the ".thumb" infix of a thumbnail.
ImagePath(date, time, counter, ext) ==
  [date |-> date, time |-> time, counter |-> counter, ext |-> ext,
   thumb |-> FALSE]
\* no path: a None thumbnail path, a NULL thumb_path
NoPath ==
  [date |-> 0, time |-> 0, counter |-> 0, ext |-> NullText, thumb |-> FALSE]
\* generate_thumbnail: <stem>.thumb.jpg next to the image
ThumbPath(image_path) == [image_path EXCEPT !.thumb = TRUE, !.ext = "jpg"]

\* image::guess_format: "jpg" for JPEG data, "png" for PNG data and for data
\* of no known format
GuessedExtension(data) == IF data = "jpg" THEN "jpg" ELSE "png"

\* the path as it would be without the collision loop
FreePath_base(files, date, time, ext) == ImagePath(date, time, 0, ext)

FreePath(files, date, time, ext) ==
  IF ImagePath(date, time, 0, ext) \notin files
  THEN ImagePath(date, time, 0, ext)
  ELSE LET k == CHOOSE n \in 1..(Cardinality(files) + 1) :
                  /\ ImagePath(date, time, n, ext) \notin files
                  /\ \A m \in 1..(n - 1) :
                       ImagePath(date, time, m, ext) \in files
       IN ImagePath(date, time, k, ext)

\* Where save_image can fail for a reason outside of the data (the
\* thumbnail cannot be encoded or written)
ArchiveFaults == {"none", "generate_thumbnail"}

\* save_image as it would be if data that cannot be decoded were stored
\* as it is, with no thumbnail
save_image_undecoded(files, data, date, timestamp, fault) ==
  LET image_path == FreePath(files, date, timestamp[3], GuessedExtension(data))
  IN [ok |-> TRUE, image_files |-> files \cup {image_path},
      image_path |-> image_path, thumb_path |-> NoPath, error |-> NullText]

\* save_image: the primary file is written before the data is decoded, and
\* the thumbnail is written after that; each `?` returns at once
save_image(files, data, date, timestamp, fault) ==
  LET image_path == FreePath(files, date, timestamp[3], GuessedExtension(data))
      written == files \cup {image_path}
  IN IF data = "garbage"
     THEN [ok |-> FALSE, image_files |-> written, image_path |-> image_path,
           thumb_path |-> NoPath, error |-> "Failed to decode image"]
     ELSE IF fault = "generate_thumbnail"
     THEN [ok |-> FALSE, image_files |-> written, image_path |-> image_path,
           thumb_path |-> NoPath, error |-> "Failed to save thumbnail"]
     ELSE [ok |-> TRUE,
           image_files |-> written \cup {ThumbPath(image_path)},
           image_path |-> image_path, thumb_path |-> ThumbPath(image_path),
           error |-> NullText]

(* ----------------------------------------------------------- workflow.rs *)
\* Where a catalog statement of the workflow can fail (storage engine error)
PrepareFaults == {"none", "update_job_started"}
CompleteFaults == {"none", "insert_generation", "add_tags", "link_reference"}

\* prepare_generation as it would be if it returned right after create_job
prepare_generation_unstarted(c, fault) ==
  LET c1 == create_job(c)
      id == c1.seq.generation_jobs
  IN IF fault = "update_job_started"
     THEN [ok |-> FALSE, c |-> c1, job_id |-> id,
           error |-> "Failed to update job to running"]
     ELSE [ok |-> TRUE, c |-> c1, job_id |-> id, error |-> NullText]

\* prepare_generation: create_job, then update_job_started
prepare_generation(c, fault) ==
  LET c1 == create_job(c)
      id == c1.seq.generation_jobs
  IN IF fault = "update_job_started"
     THEN [ok |-> FALSE, c |-> c1, job_id |-> id,
           error |-> "Failed to update job to running"]
     ELSE [ok |-> TRUE, c |-> update_job_started(c1, id), job_id |-> id,
           error |-> NullText]

\* the loop over reference_paths of complete_generation
RECURSIVE link_references(_, _, _, _, _)
link_references(c, files, generation_id, paths, fault) ==
  IF paths = <<>> THEN [ok |-> TRUE, c |-> c, ref_files |-> files,
                        error |-> NullText]
  ELSE LET stored == store_reference(files, Head(paths))
       IN IF ~stored.ok
          THEN [ok |-> FALSE, c |-> c, ref_files |-> files,
                error |-> stored.error]
          ELSE LET c1 == get_or_create_reference(c, stored.hash, stored.path)
                   ref_id == RefIdOf(c1, stored.hash)
               IN IF fault = "link_reference"
                  THEN [ok |-> FALSE, c |-> c1, ref_files |-> stored.ref_files,
                        error |-> "link_reference failed"]
                  ELSE link_references(link_reference(c1, generation_id, ref_id),
                                       stored.ref_files, generation_id,
                                       Tail(paths), fault)

\* ModelInfo::find(model).map(|m| m.cost_per_image) of prepare_generation:
\* the static estimate of a known model, none for an unknown one
KnownModels == {"gemini-flash", "animagine"}
Models == KnownModels \cup {"custom-model"}
cost_per_image(model) == IF model = "gemini-flash" THEN 39 ELSE 0
estimated_cost(model) ==
  IF model \in KnownModels THEN cost_per_image(model) ELSE NullCost

\* the stored cost as it would be if the estimate came before the reported
\* cost
CostOr_estimate_first(cost_usd, estimate) ==
  IF estimate # NullCost THEN estimate ELSE cost_usd

\* result.cost_usd.or(estimated_cost)
CostOr(cost_usd, estimate) == IF cost_usd # NullCost THEN cost_usd ELSE estimate

\* complete_generation: every `?` returns at once and leaves what was
\* written so far; there is no transaction around the statements
complete_generation(c, rfiles, ifiles, job, model, tagList, reference_paths, result, estimate, fault) ==
  LET timestamp == FormatIso(LocalNow)
      date == timestamp[1]
      saved == save_image(ifiles, result.data, date, timestamp,
                          IF fault \in ArchiveFaults THEN fault ELSE "none")
      cost == CostOr(result.cost_usd, estimate)
      Result(ok, cat, rf, g, err) ==
        [ok |-> ok, c |-> cat, ref_files |-> rf,
         image_files |-> saved.image_files, gen_id |-> g, error |-> err]
  IN IF ~saved.ok THEN Result(FALSE, c, rfiles, NullId, saved.error)
     ELSE IF fault = "insert_generation"
     THEN Result(FALSE, c, rfiles, NullId, "Failed to insert generation")
     ELSE
       LET c1 == insert_generation(c, model, timestamp, date, saved.image_path,
                                   saved.thumb_path, cost)
           g == c1.seq.generations
       IN IF tagList # <<>> /\ fault = "add_tags"
          THEN Result(FALSE, c1, rfiles, g, "add_tags failed")
          ELSE
            LET c2 == IF tagList # <<>> THEN add_tags(c1, g, tagList) ELSE c1
                linked == link_references(c2, rfiles, g, reference_paths, fault)
            IN IF ~linked.ok
               THEN Result(FALSE, linked.c, linked.ref_files, g, linked.error)
               ELSE Result(TRUE, update_job_completed(linked.c, job, g),
                           linked.ref_files, g, NullText)

\* the provider name prepare_generation returns: the table entry's provider,
\* "unknown" for a model that has no entry
provider_name(model) ==
  IF model = "gemini-flash" THEN "gemini"
  ELSE IF model = "animagine" THEN "selfhosted" ELSE "unknown"

\* providers::generate: a model of the table goes to its provider, any other
\* model to the self-hosted server when one is configured, else the call
\* fails before any provider is reached; `response` is the provider's answer
UnknownModelError == "Unknown model"
generate(model, server_url, response) ==
  IF model \notin KnownModels /\ ~server_url
  THEN [kind |-> "err", error |-> UnknownModelError, data |-> "none",
        cost_usd |-> NullCost]
  ELSE response

\* perform_generation as it would be if a failed dispatch returned the error
\* without update_job_failed
perform_generation_unmarked(c, rfiles, ifiles, p, result, fault) ==
  LET prep == prepare_generation(c, "none")
  IN IF result.kind = "err"
     THEN [ok |-> FALSE, c |-> prep.c,
           ref_files |-> rfiles, image_files |-> ifiles, gen_id |-> NullId,
           error |-> result.error]
     ELSE complete_generation(prep.c, rfiles, ifiles, prep.job_id, p.model,
                              p.tags, p.reference_paths, result,
                              estimated_cost(p.model), fault)

\* perform_generation (the CLI workflow): prepare_generation, the provider
\* call, then update_job_failed and the error, or complete_generation
perform_generation(c, rfiles, ifiles, p, result, fault) ==
  LET prep == prepare_generation(c, "none")
  IN IF result.kind = "err"
     THEN [ok |-> FALSE,
           c |-> update_job_failed(prep.c, prep.job_id, result.error),
           ref_files |-> rfiles, image_files |-> ifiles, gen_id |-> NullId,
           error |-> result.error]
     ELSE complete_generation(prep.c, rfiles, ifiles, prep.job_id, p.model,
                              p.tags, p.reference_paths, result,
                              estimated_cost(p.model), fault)

(* ---------------------------------------------------------------- cli.rs *)
\* import_image: save_image, insert_generation (with no cost), add_tags,
\* then the reference loop; no job row is written.  The date is the
\* override when one is given, else today's.
import_image(c, rfiles, ifiles, model, tagList, reference_paths, date_override, data) ==
  LET date == IF date_override # NoOverride THEN date_override
              ELSE LocalNow \div MinutesPerDay
      timestamp == <<date, SepIso, LocalNow % MinutesPerDay>>
      saved == save_image(ifiles, data, date, timestamp, "none")
  IN IF ~saved.ok
     THEN [ok |-> FALSE, c |-> c, ref_files |-> rfiles,
           image_files |-> saved.image_files, gen_id |-> NullId,
           error |-> saved.error]
     ELSE
       LET c1 == insert_generation(c, model, timestamp, date, saved.image_path,
                                   saved.thumb_path, NullCost)
           g == c1.seq.generations
           c2 == IF tagList # <<>> THEN add_tags(c1, g, tagList) ELSE c1
           linked == link_references(c2, rfiles, g, reference_paths, "none")
       IN [ok |-> linked.ok, c |-> linked.c, ref_files |-> linked.ref_files,
           image_files |-> saved.image_files, gen_id |-> g,
           error |-> linked.error]

Init ==
  /\ now = InitNow
  /\ tz \in TzOffsets
  /\ lock = NoHolder
  /\ generations = {}
  /\ tags = {}
  /\ generation_tags = {}
  /\ refs = {}
  /\ generation_refs = {}
  /\ generation_jobs = <<>>
  /\ collections = {}
  /\ generation_collections = {}
  /\ seq = [generations |-> 0, tags |-> 0, refs |-> 0, generation_jobs |-> 0,
            collections |-> 0]
  /\ ref_files = {}
  /\ image_files = {}
  /\ pc = [r \in Requests |-> "idle"]
  /\ params = [r \in Requests |->
                 [model |-> "gemini-flash", tags |-> <<>>,
                  reference_paths |-> <<>>]]
  /\ job_id = [r \in Requests |-> NullId]
  /\ outcome = [r \in Requests |-> NoResult]
  /\ gen_id = [r \in Requests |-> NullId]
  /\ ret = [r \in Requests |-> NoResult]
  /\ provider_calls = [r \in Requests |-> 0]
  /\ cmd_pc = [c \in Commands |-> "idle"]
  /\ call = NoCall

(* ------------------------------------- commands.rs: generate_image (GUI) *)
\* Phase 1, state.db.lock(): the command is invoked and takes the mutex
LockForPrepare(r, p) ==
  /\ pc[r] = "idle"
  /\ \A e \in Earlier(r) : pc[e] # "idle"
  /\ Ticks <= MaxStartTick
  /\ lock = NoHolder
  /\ lock' = r
  /\ params' = [params EXCEPT ![r] = p]
  /\ pc' = [pc EXCEPT ![r] = "prepare"]
  /\ UNCHANGED <<now, tz, catalogVars, fileVars, job_id, outcome, gen_id, ret,
                 provider_calls, cmd_pc, call>>

\* Prepare as it would be if the guard outlived the block (kept across the
\* await)
PrepareHoldingLock(r, fault) ==
  /\ pc[r] = "prepare"
  /\ lock = r
  /\ LET p == prepare_generation(Catalog, fault)
     IN /\ SetCatalog(p.c)
        /\ job_id' = [job_id EXCEPT ![r] = p.job_id]
        /\ IF p.ok
           THEN /\ pc' = [pc EXCEPT ![r] = "await"]
                /\ ret' = ret
                /\ lock' = lock
           ELSE /\ pc' = [pc EXCEPT ![r] = "done"]
                /\ ret' = [ret EXCEPT ![r] = Returned("err", p.error)]
                /\ lock' = NoHolder
  /\ UNCHANGED <<now, tz, fileVars, params, outcome, gen_id, provider_calls,
                 cmd_pc, call>>

\* Phase 1, prepare_generation inside the block; the guard is dropped at the
\* end of the block, on success and on `?` alike
Prepare(r, fault) ==
  /\ pc[r] = "prepare"
  /\ lock = r
  /\ LET p == prepare_generation(Catalog, fault)
     IN /\ SetCatalog(p.c)
        /\ job_id' = [job_id EXCEPT ![r] = p.job_id]
        /\ IF p.ok
           THEN /\ pc' = [pc EXCEPT ![r] = "await"]
                /\ ret' = ret
           ELSE /\ pc' = [pc EXCEPT ![r] = "done"]
                /\ ret' = [ret EXCEPT ![r] = Returned("err", p.error)]
  /\ lock' = NoHolder
  /\ UNCHANGED <<now, tz, fileVars, params, outcome, gen_id, provider_calls,
                 cmd_pc, call>>

\* Phase 2: providers::generate(...).await resolves
ProviderReturns(r, result) ==
  /\ pc[r] = "await"
  /\ outcome' = [outcome EXCEPT ![r] = result]
  /\ provider_calls' = [provider_calls EXCEPT ![r] = @ + 1]
  /\ pc' = [pc EXCEPT ![r] = IF result.kind = "ok" THEN "got_ok" ELSE "got_err"]
  /\ UNCHANGED <<now, tz, lock, catalogVars, fileVars, params, job_id, gen_id,
                 ret, cmd_pc, call>>

\* the future is dropped (or the process dies) while the provider call is
\* pending: nothing after the await runs
Abandon(r) ==
  /\ pc[r] = "await"
  /\ pc' = [pc EXCEPT ![r] = "dropped"]
  /\ UNCHANGED <<now, tz, lock, catalogVars, fileVars, params, job_id, outcome,
                 gen_id, ret, provider_calls, cmd_pc, call>>

\* Err arm: state.db.lock()
LockForFailed(r) ==
  /\ pc[r] = "got_err"
  /\ lock = NoHolder
  /\ lock' = r
  /\ pc' = [pc EXCEPT ![r] = "failing"]
  /\ UNCHANGED <<now, tz, catalogVars, fileVars, params, job_id, outcome,
                 gen_id, ret, provider_calls, cmd_pc, call>>

\* Err arm: update_job_failed(job_id, &e.to_string()); return Err(e.to_string())
MarkFailed(r) ==
  /\ pc[r] = "failing"
  /\ lock = r
  /\ SetCatalog(update_job_failed(Catalog, job_id[r], outcome[r].error))
  /\ ret' = [ret EXCEPT ![r] = Returned("err", outcome[r].error)]
  /\ pc' = [pc EXCEPT ![r] = "done"]
  /\ lock' = NoHolder
  /\ UNCHANGED <<now, tz, fileVars, params, job_id, outcome, gen_id,
                 provider_calls, cmd_pc, call>>

\* Phase 3: state.db.lock()
LockForComplete(r) ==
  /\ pc[r] = "got_ok"
  /\ lock = NoHolder
  /\ lock' = r
  /\ pc' = [pc EXCEPT ![r] = "completing"]
  /\ UNCHANGED <<now, tz, catalogVars, fileVars, params, job_id, outcome,
                 gen_id, ret, provider_calls, cmd_pc, call>>

\* Phase 3: complete_generation, then the optional copy_to; the guard lives
\* to the end of the function
Complete(r, fault, copy_fails) ==
  /\ pc[r] = "completing"
  /\ lock = r
  /\ fault = "add_tags" => params[r].tags # <<>>
  /\ fault = "link_reference" => params[r].reference_paths # <<>>
  /\ LET done == complete_generation(Catalog, ref_files, image_files,
                   job_id[r], params[r].model, params[r].tags,
                   params[r].reference_paths, outcome[r],
                   estimated_cost(params[r].model), fault)
     IN /\ copy_fails => done.ok
        /\ SetCatalog(done.c)
        /\ ref_files' = done.ref_files
        /\ image_files' = done.image_files
        /\ gen_id' = [gen_id EXCEPT ![r] = done.gen_id]
        /\ ret' = [ret EXCEPT ![r] =
             IF ~done.ok THEN Returned("err", done.error)
             ELSE IF copy_fails THEN Returned("err", CopyError)
             ELSE Returned("ok", NullText)]
  /\ pc' = [pc EXCEPT ![r] = "done"]
  /\ lock' = NoHolder
  /\ UNCHANGED <<now, tz, params, job_id, outcome, provider_calls, cmd_pc, call>>

(* ------------------------------------------ the other catalog commands *)
\* any lock-scoped command: state.db.lock()
CommandLock(c) ==
  /\ cmd_pc[c] = "idle"
  /\ lock = NoHolder
  /\ lock' = c
  /\ cmd_pc' = [cmd_pc EXCEPT ![c] = "locked"]
  /\ UNCHANGED <<now, tz, catalogVars, fileVars, reqVars, call>>

\* list_generations, list_jobs, ...: read and return
CommandRead(c) ==
  /\ cmd_pc[c] = "locked"
  /\ lock = c
  /\ lock' = NoHolder
  /\ cmd_pc' = [cmd_pc EXCEPT ![c] = "idle"]
  /\ UNCHANGED <<now, tz, catalogVars, fileVars, reqVars, call>>

\* permanently_delete_generation(id) followed by archive::delete_image
CommandDelete(c, id) ==
  /\ cmd_pc[c] = "locked"
  /\ lock = c
  /\ id \in GenIds(Catalog)
  /\ SetCatalog(permanently_delete_generation(Catalog, id))
  /\ image_files' =
       IF DeleteBlocked(Catalog, id) THEN image_files
       ELSE LET g == CHOOSE x \in generations : x.id = id
            IN image_files \ {g.image_path, ThumbPath(g.image_path)}
  /\ lock' = NoHolder
  /\ cmd_pc' = [cmd_pc EXCEPT ![c] = "idle"]
  /\ UNCHANGED <<now, tz, ref_files, reqVars, call>>

\* cleanup_stalled_jobs, run by a scheduler outside of the GUI commands
Sweep ==
  /\ StalledJobs(Catalog) # {}
  /\ SetCatalog(cleanup_stalled_jobs(Catalog))
  /\ UNCHANGED <<now, tz, lock, fileVars, reqVars, cmd_pc, call>>

\* time passes
Tick(limit) ==
  /\ Ticks < limit
  /\ now' = now + TickMinutes
  /\ UNCHANGED <<tz, lock, catalogVars, fileVars, reqVars, cmd_pc, call>>

Next ==
  \/ \E r \in Requests : \E p \in ParamSets(r) : LockForPrepare(r, p)
  \/ \E r \in Requests, f \in PrepareFaults : Prepare(r, f)
  \/ \E r \in Requests, res \in ProviderResults : ProviderReturns(r, res)
  \/ \E r \in Requests : Abandon(r)
  \/ \E r \in Requests : LockForFailed(r)
  \/ \E r \in Requests : MarkFailed(r)
  \/ \E r \in Requests : LockForComplete(r)
  \/ \E r \in Requests, f \in CompleteFaults, cf \in BOOLEAN : Complete(r, f, cf)
  \/ \E c \in Commands : CommandLock(c)
  \/ \E c \in Commands : CommandRead(c)
  \/ \E c \in Commands, id \in 1..Cardinality(Requests) : CommandDelete(c, id)
  \/ Sweep
  \/ Tick(MaxTicks)

Spec == Init /\ [][Next]_vars

\* The sweep specification: requests without tags and references, no other
\* command, a longer clock, and a scheduler that keeps running the sweep.
PlainParams ==
  [model |-> "gemini-flash", tags |-> <<>>, reference_paths |-> <<>>]

SweepNext ==
  \/ \E r \in Requests : LockForPrepare(r, PlainParams)
  \/ \E r \in Requests, f \in PrepareFaults : Prepare(r, f)
  \/ \E r \in Requests, res \in ProviderResults : ProviderReturns(r, res)
  \/ \E r \in Requests : Abandon(r)
  \/ \E r \in Requests : LockForFailed(r)
  \/ \E r \in Requests : MarkFailed(r)
  \/ \E r \in Requests : LockForComplete(r)
  \/ \E r \in Requests : Complete(r, "none", FALSE)
  \/ Sweep
  \/ Tick(MaxSweepTicks)

SweepSpec ==
  Init /\ [][SweepNext]_vars /\ WF_vars(Sweep) /\ WF_vars(Tick(MaxSweepTicks))

(* --------------------------------- the catalog commands, one call a step *)
\* Every command below locks the catalog, runs one Database method (and the
\* archive call that follows it) and returns; `call` keeps what it returned.
Filters ==
  [show_trashed : BOOLEAN, tags : TagLists, exclude_tags : TagLists,
   collection_id : {NullId, 1}, uncategorized : BOOLEAN,
   model : {NullText}, starred_only : {FALSE}, since : {<<>>},
   limit : {<<>>}, offset : {<<>>}]
DefaultFilter ==
  [show_trashed |-> FALSE, tags |-> <<>>, exclude_tags |-> <<>>,
   collection_id |-> NullId, uncategorized |-> FALSE,
   model |-> NullText, starred_only |-> FALSE, since |-> <<>>,
   limit |-> <<>>, offset |-> <<>>]
\* the default filter with a limit, an offset, both or neither
Limits == {<<>>, <<1>>, <<2>>}
Offsets == {<<>>, <<0>>, <<1>>}
PagedFilters ==
  {[DefaultFilter EXCEPT !.limit = l, !.offset = o] :
     l \in Limits, o \in Offsets}
ListedFilters ==
  {DefaultFilter,
   [DefaultFilter EXCEPT !.tags = <<"fox", "owl">>],
   [DefaultFilter EXCEPT !.exclude_tags = <<"owl">>]}

CommandFrame == UNCHANGED <<now, tz, lock, reqVars, cmd_pc>>

\* cli.rs generate_image: perform_generation; `limit` bounds the number of
\* job rows
CliGenerate(p, result, fault, limit) ==
  /\ lock = NoHolder
  /\ seq.generations < MaxGenerations
  /\ seq.generation_jobs < limit
  /\ LET done == perform_generation(Catalog, ref_files, image_files, p, result,
                                    fault)
     IN /\ SetCatalog(done.c)
        /\ ref_files' = done.ref_files
        /\ image_files' = done.image_files
        /\ call' = [op |-> "perform_generation", ok |-> done.ok,
                    id |-> done.gen_id, model |-> p.model,
                    kind |-> result.kind, data |-> result.data,
                    cost_usd |-> result.cost_usd, fault |-> fault,
                    error |-> done.error]
  /\ CommandFrame

\* cli.rs import_image; `limit` bounds the number of generation rows
CliImport(p, date_override, data, limit) ==
  /\ lock = NoHolder
  /\ seq.generations < limit
  /\ LET done == import_image(Catalog, ref_files, image_files, p.model, p.tags,
                              p.reference_paths, date_override, data)
     IN /\ SetCatalog(done.c)
        /\ ref_files' = done.ref_files
        /\ image_files' = done.image_files
        /\ call' = [op |-> "import_image", ok |-> done.ok, id |-> done.gen_id]
  /\ CommandFrame

AddTags(id, tagList) ==
  /\ lock = NoHolder
  /\ SetCatalog(add_tags(Catalog, id, tagList))
  /\ call' = [op |-> "add_tags", id |-> id, tags |-> tagList,
              ok |-> add_tags_ok(Catalog, id, tagList)]
  /\ UNCHANGED fileVars
  /\ CommandFrame

TrashGeneration(id) ==
  /\ lock = NoHolder
  /\ LET t == trash_generation(Catalog, id)
     IN /\ SetCatalog(t.c)
        /\ call' = [op |-> "trash_generation", id |-> id, result |-> t.result]
  /\ UNCHANGED fileVars
  /\ CommandFrame

TrashGenerations(ids) ==
  /\ lock = NoHolder
  /\ LET t == trash_generations(Catalog, ids)
     IN /\ SetCatalog(t.c)
        /\ call' = [op |-> "trash_generations", ids |-> ids,
                    result |-> t.result]
  /\ UNCHANGED fileVars
  /\ CommandFrame

RestoreGeneration(id) ==
  /\ lock = NoHolder
  /\ LET t == restore_generation(Catalog, id)
     IN /\ SetCatalog(t.c)
        /\ call' = [op |-> "restore_generation", id |-> id,
                    result |-> t.result]
  /\ UNCHANGED fileVars
  /\ CommandFrame

\* permanently_delete_generation: the SELECT of image_path, the DELETE (an
\* error when a foreign key blocks it), then archive::delete_image
PermanentlyDeleteGeneration(id) ==
  /\ lock = NoHolder
  /\ LET found == get_generation(Catalog, id)
         blocked == found # {} /\ DeleteBlocked(Catalog, id)
         path == IF found = {} THEN NullText
                 ELSE GenerationOf(Catalog, id).image_path
     IN /\ SetCatalog(permanently_delete_generation(Catalog, id))
        /\ image_files' = IF found = {} \/ blocked THEN image_files
                          ELSE image_files \ {path, ThumbPath(path)}
        /\ call' = [op |-> "permanently_delete_generation", id |-> id,
                    kind |-> IF blocked THEN "err"
                             ELSE IF found = {} THEN "none" ELSE "path",
                    path |-> IF blocked THEN NullText ELSE path]
  /\ UNCHANGED ref_files
  /\ CommandFrame

CreateCollection(name) ==
  /\ lock = NoHolder
  /\ seq.collections < MaxCollections
  /\ LET made == create_collection(Catalog, name)
     IN /\ SetCatalog(made.c)
        /\ call' = [op |-> "create_collection", name |-> name, ok |-> made.ok]
  /\ UNCHANGED fileVars
  /\ CommandFrame

AddToCollection(id, name) ==
  /\ lock = NoHolder
  /\ LET added == add_to_collection(Catalog, id, name)
     IN /\ SetCatalog(added.c)
        /\ call' = [op |-> "add_to_collection", id |-> id, name |-> name,
                    ok |-> added.ok]
  /\ UNCHANGED fileVars
  /\ CommandFrame

DeleteCollection(name) ==
  /\ lock = NoHolder
  /\ LET gone == delete_collection(Catalog, name)
     IN /\ SetCatalog(gone.c)
        /\ call' = [op |-> "delete_collection", name |-> name,
                    result |-> gone.result]
  /\ UNCHANGED fileVars
  /\ CommandFrame

ListGenerations(filter) ==
  /\ lock = NoHolder
  /\ IF list_generations_ok(filter)
     THEN \E result \in list_generations(Catalog, filter) :
            call' = [op |-> "list_generations", filter |-> filter,
                     ok |-> TRUE, result |-> result]
     ELSE call' = [op |-> "list_generations", filter |-> filter,
                   ok |-> FALSE, result |-> <<>>]
  /\ UNCHANGED <<catalogVars, fileVars>>
  /\ CommandFrame

\* The catalog specification: generations are created by the CLI workflow
\* and by import, tagged, put into collections and permanently deleted.
CatalogNext ==
  \/ \E p \in CliParams, res \in ProviderResults : CliGenerate(p, res, "none", MaxJobs)
  \/ \E p \in ImportParams : CliImport(p, NoOverride, "png", MaxGenerations)
  \/ \E id \in GenerationIdArgs, l \in AddedTagLists : AddTags(id, l)
  \/ \E id \in GenerationIdArgs : PermanentlyDeleteGeneration(id)
  \/ \E name \in CollectionNames : CreateCollection(name)
  \/ \E id \in GenerationIdArgs, name \in CollectionNames :
       AddToCollection(id, name)
  \/ \E name \in CollectionNames : DeleteCollection(name)
  \/ \E f \in ListedFilters : ListGenerations(f)

CatalogSpec == Init /\ [][CatalogNext]_vars

\* The trash specification: imported generations are trashed and restored
\* while time passes.
RemoveTag(id, tag) ==
  /\ lock = NoHolder
  /\ SetCatalog(remove_tag(Catalog, id, tag))
  /\ call' = [op |-> "remove_tag", id |-> id, tag |-> tag, ok |-> TRUE]
  /\ UNCHANGED fileVars
  /\ CommandFrame

RemoveFromCollection(id, name) ==
  /\ lock = NoHolder
  /\ SetCatalog(remove_from_collection(Catalog, id, name))
  /\ call' = [op |-> "remove_from_collection", id |-> id, name |-> name,
              ok |-> TRUE]
  /\ UNCHANGED fileVars
  /\ CommandFrame

ListTags ==
  /\ lock = NoHolder
  /\ call' = [op |-> "list_tags", result |-> list_tags(Catalog)]
  /\ UNCHANGED <<catalogVars, fileVars>>
  /\ CommandFrame

\* The relation specification: imported generations (one of them naming the
\* same reference content through two paths) are tagged, untagged, put into
\* and taken out of a collection, trashed and permanently deleted.
RelationParams ==
  {[model |-> "gemini-flash", tags |-> <<>>, reference_paths |-> <<>>],
   [model |-> "gemini-flash", tags |-> <<"fox">>,
    reference_paths |-> <<"a.png", "b.png">>]}
RelationIds == 1..MaxGenerations
TagNames == {"fox", "owl"}

RelationNext ==
  \/ \E p \in RelationParams :
       CliImport(p, NoOverride, "png", MaxGenerations)
  \/ \E id \in RelationIds, l \in AddedTagLists : AddTags(id, l)
  \/ \E id \in RelationIds, tag \in TagNames : RemoveTag(id, tag)
  \/ \E name \in CollectionNames : CreateCollection(name)
  \/ \E id \in RelationIds, name \in CollectionNames :
       AddToCollection(id, name)
  \/ \E id \in RelationIds, name \in CollectionNames :
       RemoveFromCollection(id, name)
  \/ \E name \in CollectionNames : DeleteCollection(name)
  \/ TrashGeneration(1)
  \/ \E id \in RelationIds : PermanentlyDeleteGeneration(id)
  \/ ListTags

RelationSpec == Init /\ [][RelationNext]_vars

\* The archive specification: the CLI workflow saves outputs of every
\* format, decodable or not, with and without a failure of the thumbnail,
\* into the directory of one date, several of them within the same second.
ArchiveData == {"png", "jpg", "garbage"}
ArchiveResults ==
  [kind : {"ok"}, error : {NullText}, data : ArchiveData, cost_usd : {NullCost}]

ArchiveNext ==
  \/ \E res \in ArchiveResults, f \in ArchiveFaults :
       CliGenerate(PlainParams, res, f, MaxArchiveJobs)
  \/ Tick(MaxArchiveTicks)

ArchiveSpec == Init /\ [][ArchiveNext]_vars

\* The cost specification: the CLI workflow with known and unknown models
\* and with and without a reported cost, imports dated one day after the
\* other, trash, and the cost summary.
CostParams ==
  {[model |-> m, tags |-> <<>>, reference_paths |-> <<>>] : m \in Models}
ReportedCosts == {NullCost, 50}
CostedResults ==
  [kind : {"ok"}, error : {NullText}, data : {"png"}, cost_usd : ReportedCosts]
    \cup [kind : {"err"}, error : {"provider error A"}, data : {"none"},
          cost_usd : {NullCost}]
ImportedParams ==
  [model |-> "custom-model", tags |-> <<>>, reference_paths |-> <<>>]
\* the day after the latest date of the catalog (after today when it is
\* empty)
NextDay ==
  LET days == {g.date : g \in generations} \cup {LocalNow \div MinutesPerDay}
  IN 1 + CHOOSE d \in days : \A e \in days : e <= d
Sinces == {<<>>, <<2>>}

GetCostSummary(since) ==
  /\ lock = NoHolder
  /\ call' = [op |-> "get_cost_summary", since |-> since,
              summary |-> get_cost_summary(Catalog, since)]
  /\ UNCHANGED <<catalogVars, fileVars>>
  /\ CommandFrame

CostNext ==
  \/ \E p \in CostParams, res \in CostedResults, server_url \in BOOLEAN :
       CliGenerate(p, generate(p.model, server_url, res), "none", MaxCostJobs)
  \/ CliImport(ImportedParams, NextDay, "png", MaxGenerations + MaxImportDays)
  \/ TrashGeneration(1)
  \/ \E since \in Sinces : GetCostSummary(since)

CostSpec == Init /\ [][CostNext]_vars

TrashListedFilters ==
  {[DefaultFilter EXCEPT !.show_trashed = b] : b \in BOOLEAN} \cup PagedFilters

TrashNext ==
  \/ CliImport(PlainParams, NoOverride, "png", MaxGenerations)
  \/ \E id \in GenerationIdArgs : TrashGeneration(id)
  \/ \E ids \in IdLists : TrashGenerations(ids)
  \/ \E id \in GenerationIdArgs : RestoreGeneration(id)
  \/ \E f \in TrashListedFilters : ListGenerations(f)
  \/ Tick(MaxTrashTicks)

TrashSpec == Init /\ [][TrashNext]_vars

\* The shelf specification: generated and imported generations of two
\* models and two dates are starred, put into a collection, trashed and
\* restored, and the generations and the collections are listed.
ToggleStarred(id) ==
  /\ lock = NoHolder
  /\ LET t == toggle_starred(Catalog, id)
     IN /\ SetCatalog(t.c)
        /\ call' = [op |-> "toggle_starred", id |-> id, ok |-> t.ok,
                    result |-> t.result]
  /\ UNCHANGED fileVars
  /\ CommandFrame

ListCollections ==
  /\ lock = NoHolder
  /\ call' = [op |-> "list_collections", result |-> list_collections(Catalog)]
  /\ UNCHANGED <<catalogVars, fileVars>>
  /\ CommandFrame

ShelfGenerated ==
  [model |-> "gemini-flash", tags |-> <<"fox">>, reference_paths |-> <<"a.png">>]
ShelfImported ==
  {[model |-> m, tags |-> <<"owl">>, reference_paths |-> <<>>] :
     m \in {"gemini-flash", "custom-model"}}
ShelfResult ==
  [kind |-> "ok", error |-> NullText, data |-> "png", cost_usd |-> NullCost]
\* the date of an import: today's, or a given date later than today's
ShelfDate == 1 + (InitNow \div MinutesPerDay)
ShelfDates == {NoOverride, ShelfDate}
ShelfIdLists == {<<>>, <<1, 2>>, <<2, 3>>}
ShelfListedFilters ==
  {DefaultFilter,
   [DefaultFilter EXCEPT !.collection_id = 1, !.uncategorized = TRUE],
   [DefaultFilter EXCEPT !.model = "custom-model", !.starred_only = TRUE]}

ShelfNext ==
  \/ CliGenerate(ShelfGenerated, ShelfResult, "none", MaxJobs)
  \/ \E p \in ShelfImported, date \in ShelfDates :
       CliImport(p, date, "png", MaxGenerations)
  \/ \E id \in GenerationIdArgs : ToggleStarred(id)
  \/ \E name \in CollectionNames : CreateCollection(name)
  \/ \E id \in RelationIds, name \in CollectionNames :
       AddToCollection(id, name)
  \/ \E id \in RelationIds : TrashGeneration(id)
  \/ \E ids \in ShelfIdLists : TrashGenerations(ids)
  \/ \E id \in GenerationIdArgs : RestoreGeneration(id)
  \/ \E f \in ShelfListedFilters : ListGenerations(f)
  \/ ListCollections

ShelfSpec == Init /\ [][ShelfNext]_vars

\* The jobs specification: the requests of the GUI run while time passes,
\* stalled jobs are swept and old jobs are cleaned up.
CleanupHours == {0, 1}
CleanupOldJobs(hours) ==
  /\ lock = NoHolder
  /\ LET cleaned == cleanup_old_jobs(Catalog, hours)
     IN /\ SetCatalog(cleaned.c)
        /\ call' = [op |-> "cleanup_old_jobs", hours |-> hours,
                    result |-> cleaned.result]
  /\ UNCHANGED <<now, tz, lock, fileVars, reqVars, cmd_pc>>

JobsNext ==
  \/ SweepNext
  \/ \E hours \in CleanupHours : CleanupOldJobs(hours)

JobsSpec == Init /\ [][JobsNext]_vars

(* ================================================================ claims *)
Job(r) == generation_jobs[job_id[r]]
HasJob(r) == job_id[r] # NullId /\ job_id[r] \in DOMAIN generation_jobs
Terminal == {"completed", "failed"}

\* C1: while a generate_image request waits on its provider call it does not
\* hold the catalog mutex, and it holds the mutex only in its lock-scoped
\* phases; the mutex is free or held by some other command.
C1_NoLockAcrossProviderCall ==
  \A r \in Requests :
    /\ pc[r] = "await" => lock # r
    /\ lock = r <=> pc[r] \in {"prepare", "failing", "completing"}

\* a catalog command holds the mutex while a generation waits on its provider
C1_Witness ==
  /\ pc["r1"] = "await"
  /\ lock = "c1"

\* C2: once a job's status is completed or failed, its status never changes
\* again.
C2_TerminalStatusIsFinal ==
  [][\A j \in DOMAIN generation_jobs :
       generation_jobs[j].status \in Terminal =>
         /\ j \in DOMAIN generation_jobs'
         /\ generation_jobs'[j].status = generation_jobs[j].status]_vars

\* C3: when a request returns an error because the provider call or a step of
\* complete_generation failed, its job is failed and the catalog holds exactly
\* one job row per request that created one.
C3_ErrorLeavesFailedJob ==
  \A r \in Requests :
    (pc[r] = "done" /\ ret[r].kind = "err" /\ ret[r].error # CopyError
       /\ outcome[r].kind # "none") =>
      /\ HasJob(r)
      /\ Job(r).status = "failed"
      /\ Cardinality(DOMAIN generation_jobs)
           = Cardinality({q \in Requests : job_id[q] # NullId})

\* C4: every completed job has a non-null generation_id that names an
\* existing generation row.
C4_CompletedJobHasGeneration ==
  \A j \in DOMAIN generation_jobs :
    generation_jobs[j].status = "completed" =>
      /\ generation_jobs[j].generation_id # NullId
      /\ generation_jobs[j].generation_id \in GenIds(Catalog)

\* a request returned its generation and its job is completed
C4_Witness ==
  \E r \in Requests :
    /\ pc[r] = "done" /\ ret[r].kind = "ok"
    /\ HasJob(r) /\ Job(r).status = "completed"
    /\ Job(r).generation_id = gen_id[r]

CompleteFailed(r) ==
  /\ pc[r] = "done" /\ outcome[r].kind = "ok"
  /\ ret[r].kind = "err" /\ ret[r].error # CopyError
CompleteSucceeded(r) ==
  /\ pc[r] = "done" /\ outcome[r].kind = "ok"
  /\ (ret[r].kind = "ok" \/ ret[r].error = CopyError)

\* C6: complete_generation is all or nothing: after an error none of its
\* catalog writes is visible (no generation row, no tag or reference link, no
\* job completion); after success all of them are.
C6_CompleteIsAtomic ==
  \A r \in Requests :
    /\ CompleteFailed(r) =>
         /\ gen_id[r] = NullId
         /\ HasJob(r) => Job(r).status # "completed"
    /\ CompleteSucceeded(r) =>
         /\ gen_id[r] # NullId
         /\ HasJob(r) => Job(r).generation_id = gen_id[r]

\* C7: under repeated sweeps and advancing time, every job that an abandoned
\* dispatch (a dropped provider call, or a request that returned with its job
\* still pending or running) left behind is eventually failed with the
\* timeout error.
Orphaned(r) ==
  /\ pc[r] \in {"dropped", "done"}
  /\ HasJob(r)
  /\ Job(r).status \in {"pending", "running"}

C7_OrphanedJobsAreSwept ==
  \A r \in Requests :
    Orphaned(r) ~> (HasJob(r) /\ Job(r).status = "failed"
                      /\ Job(r).error = TimeoutError)

\* a job whose dispatch was dropped has been failed by the sweep
C7_Witness ==
  \E r \in Requests :
    /\ pc[r] = "dropped"
    /\ HasJob(r) /\ Job(r).status = "failed" /\ Job(r).error = TimeoutError

\* the instant a CURRENT_TIMESTAMP string denotes (UTC)
InstantOf(created_at) == created_at[1] * MinutesPerDay + created_at[3]

\* the jobs a sweep at `now` is meant to fail
OverdueJobs ==
  {j \in DOMAIN generation_jobs :
     /\ generation_jobs[j].status \in {"pending", "running"}
     /\ now - InstantOf(generation_jobs[j].created_at) > ThresholdMinutes}

\* C8: a sweep changes exactly the pending or running jobs created more than
\* 30 minutes before it, and leaves every other job unchanged.
C8_SweepFailsExactlyOverdueJobs ==
  [][(generation_jobs' = cleanup_stalled_jobs(Catalog).generation_jobs
        /\ UNCHANGED <<now, lock, pc, cmd_pc, call>>) =>
       \A j \in DOMAIN generation_jobs :
         generation_jobs'[j] # generation_jobs[j] <=> j \in OverdueJobs]_vars

\* C9 (state part): concurrent requests own distinct jobs, tag names and
\* reference hashes stay unique, and two requests that both returned a
\* generation carrying the same tag and the same reference content are both
\* linked to the one tag row and the one refs row, with both jobs completed.
SharedRows(r, q) ==
  /\ params[r].tags = <<"fox">> /\ params[q].tags = <<"fox">>
  /\ params[r].reference_paths = <<OwnPath(r)>>
  /\ params[q].reference_paths = <<OwnPath(q)>>
  /\ pc[r] = "done" /\ ret[r].kind = "ok"
  /\ pc[q] = "done" /\ ret[q].kind = "ok"

C9_State ==
  /\ \A r, q \in Requests :
       (r # q /\ job_id[r] # NullId) => job_id[r] # job_id[q]
  /\ \A t, u \in tags : t.name = u.name => t = u
  /\ \A x, y \in refs : x.hash = y.hash => x = y
  /\ \A r, q \in Requests :
       (r # q /\ SharedRows(r, q)) =>
         /\ Cardinality({t \in tags : t.name = "fox"}) = 1
         /\ Cardinality({x \in refs : x.hash = hash_bytes("bytesX")}) = 1
         /\ \A g \in {gen_id[r], gen_id[q]} :
              /\ <<g, TagIdOf(Catalog, "fox")>> \in generation_tags
              /\ <<g, RefIdOf(Catalog, hash_bytes("bytesX"))>> \in generation_refs
         /\ HasJob(r) /\ Job(r).status = "completed"
         /\ HasJob(q) /\ Job(q).status = "completed"
         /\ gen_id[r] # gen_id[q]

\* C9 (step part): a step of a request changes no job row but its own
C9_Step ==
  \A r \in Requests :
    pc'[r] # pc[r] =>
      \A j \in DOMAIN generation_jobs :
        j # job_id'[r] =>
          j \in DOMAIN generation_jobs' /\ generation_jobs'[j] = generation_jobs[j]

\* C9: two concurrent generate_image requests never corrupt each other
C9_ConcurrentRequestsAreSafe == [](C9_State) /\ [][C9_Step]_vars

\* both requests returned a generation with the shared tag and reference
C9_Witness == SharedRows("r1", "r2")

\* C10: each job yields one outcome: the provider ran at most once for it, at
\* most one generation row was created for it, and it never carries both a
\* generation created for it and a recorded failure.
C10_OneOutcomePerJob ==
  /\ \A r \in Requests : provider_calls[r] <= 1
  /\ Cardinality(generations) <= Cardinality({r \in Requests : gen_id[r] # NullId})
  /\ \A r \in Requests :
       HasJob(r) =>
         ~ /\ (gen_id[r] # NullId \/ Job(r).generation_id # NullId)
           /\ (Job(r).status = "failed" \/ Job(r).error # NullText)

\* C11: every failed job has a non-empty error and a null generation_id, and
\* every completed job has a non-null generation_id, in every state the
\* orchestrator and the sweep can produce.
C11_JobRowsAreConsistent ==
  \A j \in DOMAIN generation_jobs :
    /\ generation_jobs[j].status = "failed" =>
         /\ generation_jobs[j].error \notin {NullText, ""}
         /\ generation_jobs[j].generation_id = NullId
    /\ generation_jobs[j].status = "completed" =>
         generation_jobs[j].generation_id # NullId

\* one job was failed by the sweep while another one is completed
C11_Witness ==
  \E j, k \in DOMAIN generation_jobs :
    /\ generation_jobs[j].status = "failed"
    /\ generation_jobs[j].error = TimeoutError
    /\ generation_jobs[k].status = "completed"

\* the positions of a request at which its provider call has been dispatched
Dispatched == {"await", "got_ok", "got_err", "failing", "completing", "dropped"}

\* C12 (state part): a request whose provider call was dispatched has a job
\* row that has left pending and has its started_at set
C12_State ==
  \A r \in Requests :
    (pc[r] \in Dispatched \/ provider_calls[r] > 0) =>
      /\ HasJob(r)
      /\ Job(r).status # "pending"
      /\ Job(r).started_at # NullTime

\* C12 (step part): the step that returns from prepare_generation and
\* dispatches the provider call leaves the request's job running
C12_Step ==
  \A r \in Requests :
    (pc[r] = "prepare" /\ pc'[r] = "await") =>
      /\ job_id'[r] \in DOMAIN generation_jobs'
      /\ job_id'[r] \notin DOMAIN generation_jobs
      /\ generation_jobs'[job_id'[r]].status = "running"
      /\ generation_jobs'[job_id'[r]].started_at = FormatIso(LocalNow)

\* C12: the job is recorded, and running with started_at set, before the
\* provider call of its request is dispatched.
C12_JobRecordedBeforeDispatch == [](C12_State) /\ [][C12_Step]_vars

\* a request waits on its provider call and its job is running
C12_Witness ==
  \E r \in Requests :
    /\ pc[r] = "await"
    /\ HasJob(r) /\ Job(r).status = "running"
    /\ Job(r).started_at # NullTime

\* two requests named byte-identical reference files through different paths
\* and both returned their generation
SameContentLinked(r, q) ==
  /\ r # q
  /\ params[r].reference_paths = <<OwnPath(r)>>
  /\ params[q].reference_paths = <<OwnPath(q)>>
  /\ OwnPath(r) # OwnPath(q)
  /\ FileContent(OwnPath(r)) = FileContent(OwnPath(q))
  /\ CompleteSucceeded(r) /\ CompleteSucceeded(q)

\* C13: no two refs rows have the same content hash; registering
\* byte-identical files from two source paths and linking them to two
\* generations leaves one refs row and two generation_refs links.
C13_OneRowPerContentHash ==
  /\ \A x, y \in refs : x.hash = y.hash => x.id = y.id
  /\ \A x, y \in refs : x.id = y.id => x = y
  /\ \A r, q \in Requests :
       SameContentLinked(r, q) =>
         /\ Cardinality(refs) = 1
         /\ \E x \in refs :
              /\ x.hash = hash_bytes(FileContent(OwnPath(r)))
              /\ generation_refs = {<<gen_id[r], x.id>>, <<gen_id[q], x.id>>}
         /\ Cardinality(generation_refs) = 2

\* both generations are linked and the reference file was stored once
C13_Witness ==
  /\ SameContentLinked("r1", "r2")
  /\ Cardinality(generation_refs) = 2
  /\ Cardinality(ref_files) = 1

\* C14: store_reference is idempotent by content: once a file has been
\* stored, a call for any source file with the same bytes returns the same
\* (hash, stored path) pair and copies nothing.
C14_StoreReferenceIsIdempotentByContent ==
  \A p1, p2 \in SourcePaths :
    LET first == store_reference(ref_files, p1)
        second == store_reference(ref_files, p2)
    IN (/\ first.ok /\ first.path \in ref_files
        /\ FileContent(p2) = FileContent(p1)) =>
         /\ second.ok
         /\ second.hash = first.hash
         /\ second.path = first.path
         /\ second.ref_files = ref_files

\* the step is a call of the catalog command `op` (the clock is the only
\* other thing that moves in the catalog specifications)
Called(op) == call'.op = op /\ now' = now

\* the ids list_generations can return for a filter
ReturnedIds(c, filter) == UNION {Names(res) : res \in list_generations(c, filter)}

\* C15: permanently_delete_generation of a generation that is present removes
\* the row and returns its image_path, get_generation and list_generations
\* no longer return it, and a second call with the same id returns no path.
C15_PermanentDeleteRemovesGeneration ==
  [][Called("permanently_delete_generation") =>
       /\ call'.id \in GenIds(Catalog) =>
            /\ call'.kind = "path"
            /\ call'.path = GenerationOf(Catalog, call'.id).image_path
            /\ get_generation(Catalog', call'.id) = {}
            /\ \A f \in Filters : call'.id \notin ReturnedIds(Catalog', f)
       /\ (/\ call.op = "permanently_delete_generation"
           /\ call.id = call'.id /\ call.kind = "path") =>
            call'.kind = "none"]_vars

\* C16 (state part): every join row names rows that exist
C16_State ==
  /\ \A l \in generation_tags :
       l[1] \in GenIds(Catalog) /\ l[2] \in {t.id : t \in tags}
  /\ \A l \in generation_refs :
       l[1] \in GenIds(Catalog) /\ l[2] \in {x.id : x \in refs}
  /\ \A l \in generation_collections :
       l[1] \in GenIds(Catalog) /\ l[2] \in {x.id : x \in collections}

\* C16 (step part): the step that deletes a generation or a collection
\* deletes its join rows, and no other join row
C16_Step ==
  LET gone == GenIds(Catalog) \ GenIds(Catalog')
      closed == {x.id : x \in collections} \ {x.id : x \in collections'}
  IN (gone # {} \/ closed # {}) =>
       /\ generation_tags' = {l \in generation_tags : l[1] \notin gone}
       /\ generation_refs' = {l \in generation_refs : l[1] \notin gone}
       /\ generation_collections' =
            {l \in generation_collections :
               l[1] \notin gone /\ l[2] \notin closed}

\* C16: the join tables keep referential integrity, and the delete of a
\* generation or of a collection removes its join rows.
C16_JoinRowsNameExistingRows == [](C16_State) /\ [][C16_Step]_vars

\* a generation that had a tag link and a reference link was deleted
C16_Witness ==
  /\ call.op = "permanently_delete_generation" /\ call.kind = "path"
  /\ tags # {} /\ refs # {}
  /\ generation_tags = {} /\ generation_refs = {}

\* filters that carry nothing but a list of required tags
TagFilters == {f \in Filters : f = [DefaultFilter EXCEPT !.tags = f.tags]}

\* C17: for a non-empty list of required tag names, list_generations returns
\* a generation that is not trashed exactly when it is linked to every name
\* of the list.
C17_RequiredTagsAreAllOf ==
  \A f \in TagFilters :
    f.tags # <<>> =>
      \A g \in generations :
        g.trashed_at = NullTime =>
          (g.id \in ReturnedIds(Catalog, f)
             <=> Names(f.tags) \subseteq TagNamesOf(Catalog, g.id))

\* C18: with a list of excluded tag names, list_generations returns exactly
\* the generations that the rest of the filter selects and that carry none
\* of the excluded names.
C18_ExcludedTagsAreNoneOf ==
  \A f \in Filters :
    f.exclude_tags # <<>> =>
      ReturnedIds(Catalog, f) =
        {id \in ReturnedIds(Catalog, [f EXCEPT !.exclude_tags = <<>>]) :
           TagNamesOf(Catalog, id) \cap Names(f.exclude_tags) = {}}

\* a listing that excludes "owl" left out a generation tagged "owl" and
\* returned another one
C18_Witness ==
  /\ call.op = "list_generations"
  /\ call.filter.exclude_tags = <<"owl">>
  /\ Len(call.result) = 1
  /\ \E g \in generations :
       /\ "owl" \in TagNamesOf(Catalog, g.id)
       /\ "fox" \in TagNamesOf(Catalog, g.id)
       /\ g.id \notin Names(call.result)

ShowTrashed(b) == [DefaultFilter EXCEPT !.show_trashed = b]

\* C19 (state part): the default listing returns the generations whose
\* trashed_at is null, the trash view those whose trashed_at is set
C19_State ==
  \A g \in generations :
    /\ g.id \in ReturnedIds(Catalog, ShowTrashed(FALSE))
         <=> g.trashed_at = NullTime
    /\ g.id \in ReturnedIds(Catalog, ShowTrashed(TRUE))
         <=> g.trashed_at # NullTime

\* C19 (step part): trash moves a generation to the trash view, restore
\* moves it back to the default listing
C19_Step ==
  /\ (Called("trash_generation") /\ call'.id \in GenIds(Catalog)) =>
       /\ call'.id \notin ReturnedIds(Catalog', ShowTrashed(FALSE))
       /\ call'.id \in ReturnedIds(Catalog', ShowTrashed(TRUE))
  /\ (Called("restore_generation") /\ call'.id \in GenIds(Catalog)) =>
       /\ call'.id \in ReturnedIds(Catalog', ShowTrashed(FALSE))
       /\ call'.id \notin ReturnedIds(Catalog', ShowTrashed(TRUE))
  /\ Called("trash_generations") =>
       \A id \in Names(call'.ids) \cap GenIds(Catalog) :
         id \notin ReturnedIds(Catalog', ShowTrashed(FALSE))

\* C19: listings follow the trashed_at marker through any sequence of trash
\* and restore calls.
C19_ListingFollowsTrashedAt == [](C19_State) /\ [][C19_Step]_vars

\* a trashed generation was restored
C19_Witness ==
  /\ call.op = "restore_generation" /\ call.result = TRUE
  /\ call.id \in ReturnedIds(Catalog, ShowTrashed(FALSE))

\* C20: trash_generation of a trashed (or unknown) generation and
\* restore_generation of a generation that is not trashed (or unknown)
\* return false and change nothing; trash_generations returns the number of
\* generations it newly trashed and leaves the others as they were.
C20_TrashIsIdempotent ==
  [][/\ Called("trash_generation") =>
          LET fresh == Trashable(Catalog, {call'.id})
          IN /\ call'.result = (fresh # {})
             /\ fresh = {} => generations' = generations
             /\ \A g \in generations \ fresh : g \in generations'
     /\ Called("restore_generation") =>
          LET trashed == {g \in generations :
                            g.id = call'.id /\ g.trashed_at # NullTime}
          IN /\ call'.result = (trashed # {})
             /\ trashed = {} => generations' = generations
     /\ Called("trash_generations") =>
          LET fresh == Trashable(Catalog, Names(call'.ids))
          IN /\ call'.result = Cardinality(fresh)
             /\ \A g \in generations \ fresh : g \in generations'
             /\ \A g \in fresh :
                  [g EXCEPT !.trashed_at = FormatIso(LocalNow)] \in generations'
    ]_vars

\* a second trash_generation, after time has passed, returned false and the
\* generation keeps the timestamp of the first
C20_Witness ==
  /\ call.op = "trash_generation" /\ call.result = FALSE
  /\ \E g \in generations :
       /\ g.id = call.id
       /\ g.trashed_at # NullTime
       /\ g.trashed_at # FormatIso(LocalNow)

\* C21: for every filter, with limit and offset each present or absent,
\* list_generations succeeds and returns the generations the filter selects
\* sorted by timestamp descending, with the first `offset` of them dropped
\* and then at most `limit` returned.
C21_ListingPagesTheSortedSelection ==
  [][Called("list_generations") =>
       /\ call'.ok
       /\ \E s \in Ordered(Selected(Catalog, call'.filter)) :
            call'.result = Page([i \in DOMAIN s |-> s[i].id], call'.filter)
    ]_vars

\* what complete_generation is to store: the reported cost, else the
\* estimate of a known model, else null
C22_Expected(model, cost_usd) ==
  IF cost_usd # NullCost THEN cost_usd
  ELSE IF model \in KnownModels THEN cost_per_image(model)
  ELSE NullCost

\* C22: the cost stored on a generation created by complete_generation is
\* the provider-reported cost when there is one, otherwise the static
\* estimate of the model, otherwise (unknown model, no reported cost) null;
\* a reported cost is never replaced by the estimate.
C22_StoredCostIsReportedElseEstimate ==
  [][(Called("perform_generation") /\ call'.ok) =>
       /\ call'.id \in GenIds(Catalog') \ GenIds(Catalog)
       /\ GenerationOf(Catalog', call'.id).cost_estimate_usd
            = C22_Expected(call'.model, call'.cost_usd)
       /\ call'.cost_usd # NullCost =>
            GenerationOf(Catalog', call'.id).cost_estimate_usd = call'.cost_usd
    ]_vars

\* a generation of a model with an estimate keeps the cost the provider
\* reported, and a generation of an unknown model with no reported cost has
\* no cost
C22_Witness ==
  /\ \E g \in generations :
       /\ g.model = "gemini-flash"
       /\ g.cost_estimate_usd = 50
  /\ \E g \in generations :
       /\ g.model = "custom-model"
       /\ g.cost_estimate_usd = NullCost
       /\ \E j \in JobIds(Catalog) : generation_jobs[j].generation_id = g.id
  /\ call.op = "perform_generation"

\* the sum of the non-null costs of the rows with ids 1..n, added in id order
RECURSIVE C23_SumUpTo(_, _)
C23_SumUpTo(rows, n) ==
  IF n = 0 THEN 0
  ELSE (IF \E g \in rows : g.id = n /\ g.cost_estimate_usd # NullCost
        THEN (CHOOSE g \in rows : g.id = n).cost_estimate_usd ELSE 0)
         + C23_SumUpTo(rows, n - 1)

\* the sum of the amounts of a list of (key, amount) rows
RECURSIVE C23_SumAmounts(_)
C23_SumAmounts(pairs) ==
  IF pairs = {} THEN 0
  ELSE LET p == CHOOSE x \in pairs : TRUE
       IN p[2] + C23_SumAmounts(pairs \ {p})

\* C23: over the generations whose date is on or after `since` (all of them
\* when `since` is absent), get_cost_summary reports total = the sum of the
\* non-null costs and count = the number of the generations, null costs
\* included; the per-model totals sum to the total, and the per-day list
\* holds the most recent days, at most 30 of them.
C23_CostSummaryTotals ==
  [][Called("get_cost_summary") =>
       LET since == call'.since
           summary == call'.summary
           rows == {g \in generations : since = <<>> \/ g.date >= since[1]}
           days == {g.date : g \in rows}
           listed == {p[1] : p \in summary.by_day}
       IN /\ summary.total_usd = C23_SumUpTo(rows, seq.generations)
          /\ summary.count = Cardinality(rows)
          /\ C23_SumAmounts(summary.by_model) = summary.total_usd
          /\ Cardinality(summary.by_day) <= DayLimit
          /\ listed \subseteq days
          /\ \A d \in listed : \A e \in days : e > d => e \in listed
          /\ Cardinality(days) <= DayLimit => listed = days
    ]_vars

\* a summary over more than 30 days of generations, some of them with no
\* cost and one of them trashed
C23_Witness ==
  /\ call.op = "get_cost_summary"
  /\ call.since = <<>>
  /\ Cardinality(call.summary.by_day) = DayLimit
  /\ Cardinality({g.date : g \in generations}) > DayLimit
  /\ call.summary.total_usd = 50 + 39
  /\ call.summary.count = Cardinality(generations)
  /\ \E g \in generations :
       g.trashed_at # NullTime /\ g.cost_estimate_usd # NullCost

\* whether the generation is linked to the tag name / is a member of the
\* collection of that name
C24_Tagged(c, id, name) ==
  \E t \in c.tags : t.name = name /\ <<id, t.id>> \in c.generation_tags
C24_Member(c, id, name) ==
  \E x \in c.collections :
    x.name = name /\ <<id, x.id>> \in c.generation_collections

\* C24 (step part): add_tags and add_to_collection of a link that exists, and
\* remove_tag and remove_from_collection of a link that does not, succeed and
\* leave the catalog as it was
C24_Step ==
  /\ (/\ Called("add_tags")
      /\ call'.id \in GenIds(Catalog)
      /\ \A i \in DOMAIN call'.tags : C24_Tagged(Catalog, call'.id, call'.tags[i]))
       => call'.ok /\ Catalog' = Catalog
  /\ (/\ Called("add_to_collection")
      /\ call'.id \in GenIds(Catalog)
      /\ C24_Member(Catalog, call'.id, call'.name))
       => call'.ok /\ Catalog' = Catalog
  /\ (Called("remove_tag") /\ ~C24_Tagged(Catalog, call'.id, call'.tag))
       => call'.ok /\ Catalog' = Catalog
  /\ (/\ Called("remove_from_collection")
      /\ ~C24_Member(Catalog, call'.id, call'.name))
       => call'.ok /\ Catalog' = Catalog

\* C24 (state part): in every catalog, a second application of add_tags,
\* link_reference or add_to_collection gives the catalog of the first
C24_State ==
  \A id \in GenIds(Catalog) :
    /\ \A name \in TagNames :
         LET once == add_tags(Catalog, id, <<name>>)
         IN /\ add_tags_ok(once, id, <<name>>)
            /\ add_tags(once, id, <<name>>) = once
    /\ \A x \in refs :
         LET once == link_reference(Catalog, id, x.id)
         IN link_reference(once, id, x.id) = once
    /\ \A name \in CollectionNames :
         LET once == add_to_collection(Catalog, id, name)
             twice == add_to_collection(once.c, id, name)
         IN once.ok => twice.ok /\ twice.c = once.c

\* C24: the relation mutations are idempotent: for an existing generation a
\* second add_tags with the same tag, link_reference with the same reference
\* or add_to_collection with the same collection succeeds and leaves the
\* catalog as after the first; remove_tag and remove_from_collection of a
\* link that does not exist succeed and change nothing.
C24_RelationMutationsAreIdempotent == [](C24_State) /\ [][C24_Step]_vars

\* a generation whose two reference paths have the same content is linked to
\* the one reference once, and remove_tag of a tag that no row names returned
\* Ok
C24_Witness ==
  /\ call.op = "remove_tag"
  /\ call.ok
  /\ call.id \in GenIds(Catalog)
  /\ ~\E t \in tags : t.name = call.tag
  /\ \E g \in generations :
       /\ Cardinality({l \in generation_refs : l[1] = g.id}) = 1
       /\ C24_Tagged(Catalog, g.id, "fox")
       /\ C24_Member(Catalog, g.id, "zoo")

\* C30 (state part): tag names are unique, and list_tags lists every tag
\* row with the number of its links, 0 for a tag that has none
C30_State ==
  /\ \A t, u \in tags : t.name = u.name => t = u
  /\ \A t \in tags :
       [name |-> t.name,
        count |-> Cardinality({id \in GenIds(Catalog) :
                                 t.name \in TagNamesOf(Catalog, id)})]
         \in list_tags(Catalog)
  /\ Cardinality(list_tags(Catalog)) = Cardinality(tags)

\* C30 (step part): no step removes a row from tags, and list_tags returns
\* the list of the state part
C30_Step ==
  /\ tags \subseteq tags'
  /\ Called("list_tags") => call'.result = list_tags(Catalog)

\* C30: tag rows are only ever added: no catalog operation (remove_tag,
\* trash, permanent delete of a generation, delete_collection) removes a row
\* from tags, tag names stay unique, and a tag whose last link was removed is
\* still listed by list_tags with count 0.
C30_TagsAreOnlyAdded == [](C30_State) /\ [][C30_Step]_vars

\* list_tags listed "owl", which was created after "fox", with count 0 while
\* "fox" is still linked
C30_Witness ==
  /\ call.op = "list_tags"
  /\ [name |-> "owl", count |-> 0] \in call.result
  /\ [name |-> "fox", count |-> 1] \in call.result
  /\ \E t, u \in tags : t.name = "fox" /\ u.name = "owl" /\ t.id < u.id
  /\ generations # {}

Uncategorized == [DefaultFilter EXCEPT !.uncategorized = TRUE]

\* the frame of delete_collection: only the collection row and its
\* membership links go
C29_Frame ==
  Called("delete_collection") =>
    LET gone == {x.id : x \in {y \in collections : y.name = call'.name}}
    IN /\ generations' = generations
       /\ tags' = tags
       /\ generation_tags' = generation_tags
       /\ refs' = refs
       /\ generation_refs' = generation_refs
       /\ generation_jobs' = generation_jobs
       /\ collections' = {x \in collections : x.name # call'.name}
       /\ generation_collections' =
            {l \in generation_collections : l[2] \notin gone}
       /\ UNCHANGED fileVars

\* the former members of the deleted collection that belong to no other one
C29_Released ==
  LET gone == {x.id : x \in {y \in collections : y.name = call'.name}}
  IN {g \in generations :
        /\ \E l \in generation_collections : l[1] = g.id /\ l[2] \in gone
        /\ \A l \in generation_collections : l[1] = g.id => l[2] \in gone}

\* C29 as stated: delete_collection removes only the collection and its
\* membership links, every member still exists with its fields, tags and
\* references unchanged, and a former member that belongs to no other
\* collection is from then on returned by list_generations with
\* uncategorized = true.
C29_DeleteCollectionKeepsMembers ==
  [][/\ C29_Frame
     /\ Called("delete_collection") =>
          \A g \in C29_Released :
            g.id \in ReturnedIds(Catalog', Uncategorized)]_vars

\* C29, amended: the same, with the listing that goes with the generation's
\* trash state: a former member that is not trashed is returned by
\* list_generations with uncategorized = true, a trashed one by the listing
\* of the trash with uncategorized = true, and so is every generation for as
\* long as it is in no collection.
C29_DeleteCollectionKeepsUntrashedMembers ==
  [](\A g \in generations :
       (\A l \in generation_collections : l[1] # g.id) =>
         g.id \in ReturnedIds(Catalog,
                   [Uncategorized EXCEPT !.show_trashed = g.trashed_at # NullTime]))
    /\ [][/\ C29_Frame
          /\ Called("delete_collection") =>
               \A g \in C29_Released :
                 g.id \in ReturnedIds(Catalog',
                   [Uncategorized EXCEPT
                      !.show_trashed = g.trashed_at # NullTime])]_vars

\* the collection of a tagged generation with a reference was deleted; the
\* generation is in no collection and keeps its tag and its reference
C29_Witness ==
  /\ call.op = "delete_collection"
  /\ call.result = TRUE
  /\ collections = {}
  /\ \E g \in generations :
       /\ g.trashed_at = NullTime
       /\ "fox" \in TagNamesOf(Catalog, g.id)
       /\ \E l \in generation_refs : l[1] = g.id
       /\ g.id \in ReturnedIds(Catalog, Uncategorized)

\* the primary asset files among a set of files
C25_Primaries(files) == {f \in files : ~f.thumb}

\* C25 (step part): a save writes its primary asset to a path that did not
\* exist, <slug>-<HHMMSS>.<ext> when that name is free and else
\* <slug>-<HHMMSS>-<k>.<ext> with the smallest k >= 1 that is free
C25_Step ==
  (Called("perform_generation") /\ call'.kind = "ok") =>
    LET written == C25_Primaries(image_files') \ C25_Primaries(image_files)
        timestamp == FormatIso(LocalNow)
    IN /\ Cardinality(written) = 1
       /\ image_files \subseteq image_files'
       /\ \A f \in written :
            /\ f.date = timestamp[1] /\ f.time = timestamp[3]
            /\ f.ext = IF call'.data = "jpg" THEN "jpg" ELSE "png"
            /\ \A k \in 0..(f.counter - 1) :
                 [f EXCEPT !.counter = k] \in image_files
            /\ call'.ok => GenerationOf(Catalog', call'.id).image_path = f

\* C25 (state part): the primary paths the saves returned are pairwise
\* distinct
C25_State ==
  \A g, h \in generations : g.image_path = h.image_path => g = h

\* C25: save_image never writes its primary asset to a path that exists:
\* after any sequence of saves into one date directory, saves of the same
\* slug and second included, the returned primary paths are pairwise
\* distinct, the first is <slug>-<HHMMSS>.<ext> and each later colliding one
\* <slug>-<HHMMSS>-<k>.<ext> with k the smallest positive counter not in use.
C25_PrimaryPathsAreFresh == [](C25_State) /\ [][C25_Step]_vars

\* two saves of the same second returned the names with no counter and with
\* counter 2, the name with counter 1 being taken by a third file
C25_Witness ==
  \E g, h \in generations :
    /\ g.image_path.counter = 0
    /\ h.image_path = [g.image_path EXCEPT !.counter = 2]
    /\ [g.image_path EXCEPT !.counter = 1] \in image_files

\* C26: when the output bytes cannot be decoded as an image, save_image
\* returns an error and leaves no primary asset file behind: the files of
\* the date directory are the same as before the call.
C26_FailedDecodeLeavesNoFile ==
  [][\A r \in Requests :
       (/\ pc[r] = "completing" /\ pc'[r] = "done"
        /\ outcome[r].data = "garbage")
         => /\ ret'[r].kind = "err"
            /\ image_files' = image_files]_vars

\* C27: a failure while producing or writing the thumbnail does not fail the
\* request: save_image still returns the primary path with no thumbnail
\* path, complete_generation inserts the generation with a null thumb_path,
\* and the job ends completed.
C27_ThumbnailFailureIsNotFatal ==
  [][(/\ Called("perform_generation")
      /\ call'.fault = "generate_thumbnail"
      /\ call'.data \in {"png", "jpg"})
       => /\ call'.ok
          /\ call'.id \in GenIds(Catalog') \ GenIds(Catalog)
          /\ GenerationOf(Catalog', call'.id).thumb_path = NoPath
          /\ generation_jobs'[seq'.generation_jobs].status = "completed"
    ]_vars

\* the request's provider call returned bytes that save_image cannot store
C28_Unarchived(r) == outcome[r].kind = "ok" /\ outcome[r].data = "garbage"

\* C28 (step part): the completion of such a request returns the error and
\* writes nothing to the catalog
C28_Step ==
  \A r \in Requests :
    (pc[r] = "completing" /\ pc'[r] = "done" /\ C28_Unarchived(r)) =>
      /\ ret'[r].kind = "err"
      /\ ret'[r].error = "Failed to decode image"
      /\ gen_id'[r] = NullId
      /\ UNCHANGED catalogVars
      /\ get_cost_summary(Catalog', <<>>) = get_cost_summary(Catalog, <<>>)

\* C28 (state part): the job of such a request is never completed and names
\* no generation
C28_State ==
  \A r \in Requests :
    (C28_Unarchived(r) /\ job_id[r] \in JobIds(Catalog)) =>
      /\ Job(r).status # "completed"
      /\ Job(r).generation_id = NullId
      /\ gen_id[r] = NullId

\* C28: when archiving the output fails after the provider succeeded, the
\* request returns an error to the caller, no generation row is inserted, no
\* cost is recorded anywhere, and the job is never set to completed.
C28_FailedArchiveRecordsNothing == [](C28_State) /\ [][C28_Step]_vars

\* a request whose output could not be archived has returned the error, its
\* job is still running and the catalog has no generation
C28_Witness ==
  \E r \in Requests :
    /\ pc[r] = "done"
    /\ C28_Unarchived(r)
    /\ ret[r].kind = "err"
    /\ Job(r).status = "running"
    /\ generations = {}
    /\ image_files # {}

(* ------------------------------------------------------------------ C31 *)
C31_Step ==
  (/\ Called("perform_generation")
   /\ call'.model \notin KnownModels
   /\ call'.error = UnknownModelError)
  => LET prep == prepare_generation(Catalog, "none")
         id == prep.job_id
     IN /\ prep.ok
        /\ id \notin JobIds(Catalog)
        /\ prep.c.generation_jobs[id].status = "running"
        /\ provider_name(call'.model) = "unknown"
        /\ estimated_cost(call'.model) = NullCost
        /\ ~call'.ok
        /\ id \in JobIds(Catalog')
        /\ generation_jobs'[id].status = "failed"
        /\ generation_jobs'[id].started_at # NullTime
        /\ generation_jobs'[id].completed_at # NullTime
        /\ generation_jobs'[id].error = UnknownModelError
        /\ generation_jobs'[id].generation_id = NullId
        /\ generations' = generations
        /\ image_files' = image_files

\* C31: prepare_generation for a model that the static table does not have
\* succeeds, creating and starting a job, with provider name "unknown" and no
\* cost estimate; when the dispatch then fails with the unknown-model error,
\* the job ends failed with that error and no generation row is written.
C31_UnknownModelFailsAtDispatch == [][C31_Step]_vars

C31_Witness ==
  /\ call.op = "perform_generation"
  /\ call.model = "custom-model"
  /\ call.error = UnknownModelError
  /\ seq.generation_jobs \in JobIds(Catalog)
  /\ generation_jobs[seq.generation_jobs].status = "failed"
  /\ generation_jobs[seq.generation_jobs].error = UnknownModelError

(* ------------------------------------------------------------------ C32 *)
C32_Step ==
  ((Called("add_tags") \/ Called("add_to_collection")) /\ ~call'.ok)
  => Catalog' = Catalog

\* C32: a catalog mutation that returns an error leaves every table
\* unchanged: add_tags naming a generation that does not exist, and
\* add_to_collection naming a collection or generation that does not exist,
\* create no tags row, no link row and no other change.
C32_FailedMutationChangesNothing == [][C32_Step]_vars

(* ------------------------------------------------------------------ C33 *)
\* the ids a trash or restore call names
C33_Named(c) ==
  IF c.op = "trash_generations" THEN {c.ids[i] : i \in DOMAIN c.ids}
  ELSE {c.id}

C33_Step ==
  (Called("trash_generation") \/ Called("trash_generations")
     \/ Called("restore_generation"))
  => /\ {g.id : g \in generations'} = {g.id : g \in generations}
     /\ Cardinality(generations') = Cardinality(generations)
     /\ \A g \in generations :
          \E h \in generations' :
            /\ h.id = g.id
            /\ [h EXCEPT !.trashed_at = g.trashed_at] = g
            /\ g.id \notin C33_Named(call') => h = g
            /\ get_generation(Catalog', g.id) = {h}
     /\ UNCHANGED <<tags, generation_tags, refs, generation_refs, collections,
                    generation_collections, generation_jobs, seq, fileVars>>

\* C33: trash_generation, trash_generations and restore_generation change
\* nothing but the trashed_at marker of the named generations: their other
\* fields, the tag, reference and collection links, the other generations,
\* the jobs and the files are unchanged, and get_generation still returns a
\* trashed generation.
C33_TrashChangesOnlyTheMarker == [][C33_Step]_vars

C33_Witness ==
  /\ call.op \in {"trash_generation", "trash_generations"}
  /\ \E g \in generations :
       /\ g.id \in C33_Named(call)
       /\ g.trashed_at # NullTime
       /\ get_generation(Catalog, g.id) = {g}
       /\ \E l \in generation_collections : l[1] = g.id
       /\ \E l \in generation_tags : l[1] = g.id
       /\ \E l \in generation_refs : l[1] = g.id
       /\ \E j \in JobIds(Catalog) : generation_jobs[j].generation_id = g.id

(* ------------------------------------------------------------------ C34 *)
\* filters without limit and offset that carry any combination of the seven
\* predicates
C34_Filters ==
  [show_trashed : BOOLEAN, tags : {<<>>, <<"fox">>},
   exclude_tags : {<<>>, <<"owl">>}, collection_id : {NullId, 1},
   uncategorized : BOOLEAN, model : {NullText, "custom-model"},
   starred_only : BOOLEAN, since : {<<>>, <<ShelfDate>>},
   limit : {<<>>}, offset : {<<>>}]
C34_Predicates ==
  {"tags", "exclude_tags", "model", "starred_only", "since", "collection_id",
   "uncategorized"}
\* the filter that carries just the value v of one predicate
C34_Single(show_trashed, field, v) ==
  [DefaultFilter EXCEPT !.show_trashed = show_trashed, ![field] = v]
\* the set of ids list_generations returns
C34_Returned(f) ==
  UNION {{s[i] : i \in DOMAIN s} : s \in list_generations(Catalog, f)}

\* C34: the predicates of list_generations compose by intersection: in every
\* catalog state in which list_generations is called (it can be called in
\* every state), for every filter without limit and offset the set returned
\* is the intersection of the sets returned by the filters that carry one of
\* its predicates each, with the same show_trashed; a filter with a
\* collection id and uncategorized returns nothing.
C34_PredicatesComposeByIntersection ==
  call.op = "list_generations" =>
    \A f \in C34_Filters :
      /\ C34_Returned(f) =
           {id \in GenIds(Catalog) :
              \A field \in C34_Predicates :
                id \in C34_Returned(C34_Single(f.show_trashed, field, f[field]))}
      /\ (f.collection_id # NullId /\ f.uncategorized) => C34_Returned(f) = {}

C34_Witness ==
  /\ call.op = "list_generations"
  /\ call.filter.collection_id = 1
  /\ call.filter.uncategorized
  /\ call.result = <<>>
  /\ \E g, h \in generations :
       /\ g.trashed_at = NullTime /\ h.trashed_at = NullTime
       /\ <<g.id, 1>> \in generation_collections
       /\ <<h.id, 1>> \notin generation_collections
       /\ g.starred /\ g.model # h.model /\ g.date # h.date

(* ------------------------------------------------------------------ C35 *)
\* C35: thumbnail files are never shared between generations: two
\* generations with different primary paths have different thumbnail paths,
\* so deleting the files of one never removes a file another row points to.
C35_ThumbnailsAreNotShared ==
  \A g, h \in generations :
    g.image_path # h.image_path => g.thumb_path # h.thumb_path

(* ------------------------------------------------------------------ C36 *)
C36_Step ==
  /\ refs \subseteq refs'
  /\ Called("permanently_delete_generation") =>
       /\ {l \in generation_refs : l[1] # call'.id} \subseteq generation_refs'
       /\ \A g \in generations :
            g.id # call'.id =>
              get_references_for_generation(Catalog', g.id)
                = get_references_for_generation(Catalog, g.id)

\* C36: reference rows are never removed: no operation deletes a row of
\* refs, and permanently deleting a generation removes only its own
\* generation_refs links, so every other generation keeps its reference list.
C36_ReferencesAreNeverRemoved == [][C36_Step]_vars

C36_Witness ==
  /\ call.op = "permanently_delete_generation"
  /\ call.kind = "path"
  /\ get_generation(Catalog, call.id) = {}
  /\ ~\E l \in generation_refs : l[1] = call.id
  /\ \E g \in generations : get_references_for_generation(Catalog, g.id) # {}

(* ------------------------------------------------------------------ C37 *)
\* the members of a collection that are not trashed
C37_UntrashedMembers(collection_id) ==
  {g \in generations :
     /\ g.trashed_at = NullTime
     /\ <<g.id, collection_id>> \in generation_collections}

\* C37: the count list_collections reports for a collection is the number of
\* its member generations that are not trashed.
C37_CountIsUntrashedMembers ==
  call.op = "list_collections" =>
    \A x \in call.result : x.count = Cardinality(C37_UntrashedMembers(x.id))

(* ------------------------------------------------------------------ C38 *)
\* the jobs cleanup_old_jobs may delete: completed or failed, with a
\* completed_at before the cutoff
C38_Old(hours) ==
  {id \in JobIds(Catalog) :
     /\ generation_jobs[id].status \in Terminal
     /\ generation_jobs[id].completed_at # NullTime
     /\ StrLess(generation_jobs[id].completed_at,
                FormatIso(LocalNow - hours * MinutesPerHour))}

\* C38: cleanup_old_jobs deletes exactly the completed or failed jobs whose
\* completed_at is before the cutoff: it deletes no pending or running job,
\* changes no remaining job and changes no other table (in particular not
\* the generation a deleted completed job referred to), and returns the
\* number of jobs deleted.
C38_CleanupDeletesOnlyOldTerminalJobs ==
  \A hours \in CleanupHours :
    LET cleaned == cleanup_old_jobs(Catalog, hours)
    IN /\ JobIds(cleaned.c) = JobIds(Catalog) \ C38_Old(hours)
       /\ \A id \in JobIds(Catalog) :
            generation_jobs[id].status \in {"pending", "running"}
              => id \in JobIds(cleaned.c)
       /\ \A id \in JobIds(cleaned.c) :
            cleaned.c.generation_jobs[id] = generation_jobs[id]
       /\ cleaned.c = [Catalog EXCEPT !.generation_jobs = cleaned.c.generation_jobs]
       /\ cleaned.result = Cardinality(C38_Old(hours))

\* after a cleanup that deleted a completed job: its generation is still
\* there, and a job that is not terminal remains
C38_Witness ==
  /\ call.op = "cleanup_old_jobs"
  /\ call.result > 0
  /\ \E g \in generations :
       ~\E id \in JobIds(Catalog) : generation_jobs[id].generation_id = g.id
  /\ \E id \in JobIds(Catalog) :
       generation_jobs[id].status \in {"pending", "running"}

(* ------------------------------------------------------------------ C39 *)
C39_Step ==
  Called("toggle_starred") =>
    /\ UNCHANGED <<tags, generation_tags, refs, generation_refs, collections,
                   generation_collections, generation_jobs, seq, fileVars>>
    /\ IF call'.id \in GenIds(Catalog)
       THEN LET g == GenerationOf(Catalog, call'.id)
                again == toggle_starred(Catalog', call'.id)
            IN /\ call'.ok
               /\ call'.result = ~g.starred
               /\ generations' =
                    (generations \ {g})
                      \cup {[g EXCEPT !.starred = call'.result]}
               /\ again.ok
               /\ again.result = g.starred
               /\ again.c = Catalog
       ELSE /\ ~call'.ok
            /\ generations' = generations

\* C39: toggle_starred flips the starred flag of the named generation and
\* returns the new value, so applying it twice restores the original flag; it
\* changes no other generation and no other field, and for an id that does
\* not exist it returns an error and changes nothing.
C39_ToggleStarredIsAnInvolution == [][C39_Step]_vars

\* a generation that was starred and unstarred again, next to a starred one
C39_Witness ==
  /\ call.op = "toggle_starred"
  /\ call.ok
  /\ ~call.result
  /\ \E g, h \in generations :
       g.id = call.id /\ ~g.starred /\ h.id # g.id /\ h.starred

====
